---- MODULE Spec2Model ----
(***************************************************************************)
(* Model of antigravity2claudecode (a2c).                                  *)
(*                                                                         *)
(* Part I   - the Antigravity -> Anthropic streaming translator            *)
(*            (src/src/a2c/core/streaming.py), specification Spec.         *)
(* Part II  - the request translator's thinking decision                   *)
(*            (src/src/a2c/core/converter.py) and the way the Antigravity  *)
(*            provider configures the streaming translator                 *)
(*            (src/src/a2c/providers/antigravity.py), specification        *)
(*            SpecReq.                                                     *)
(* Part III - the create_message endpoint                                  *)
(*            (src/src/a2c/server/routes/anthropic.py), SpecRoute.         *)
(* Part IV  - the routing rules (src/src/a2c/router/rules.py), SpecMatch   *)
(*            and SpecRouter.                                              *)
(* Parts V, VI, VII, IX - the functions of the failover service, of the    *)
(*            configuration validation, of the health checks and of the    *)
(*            converter, each applied to inputs of bounded size,           *)
(*            specification SpecFn.                                        *)
(* Part VIII - the provider registry                                       *)
(*            (src/src/a2c/providers/registry.py), SpecRegistry.           *)
(***************************************************************************)
EXTENDS Integers, Sequences, FiniteSets, TLC

(***************************************************************************)
(* Bounds of the model.                                                    *)
(***************************************************************************)
\* number of upstream lines one stream may deliver before it ends
MaxLines == 2
\* number of parts one stream may deliver, over all its chunks
MaxParts == 2

(***************************************************************************)
(* JSON values that matter to the translator, as tagged records.           *)
(***************************************************************************)
Absent == [k |-> "absent", v |-> 0]
Null == [k |-> "null", v |-> 0]
Num(n) == [k |-> "int", v |-> n]
\* a string that int() cannot parse
Str == [k |-> "str", v |-> 0]

\* int(x or 0) raises ValueError on a non-numeric string
IntOrZeroFails(j) == j.k = "str"
\* "x or 0": None, 0 and a missing key are falsy
IntOrZero(j) == IF j.k = "int" /\ j.v # 0 THEN j.v ELSE 0

Max(a, b) == IF a >= b THEN a ELSE b

(***************************************************************************)
(* Texts are sequences of one-character strings.                           *)
(***************************************************************************)
\* not text.strip()
IsBlank(t) == \A i \in 1..Len(t) : t[i] = " "

NoText == [k |-> "absent", s |-> <<>>]
Text(s) == [k |-> "str", s |-> s]

(***************************************************************************)
(* Emitted events (_sse_event).  One record shape for all event types.     *)
(***************************************************************************)
Event(type, index, kind, text, sig, tin, tout, stop) ==
  [type |-> type, index |-> index, kind |-> kind, text |-> text, sig |-> sig,
   input_tokens |-> tin, output_tokens |-> tout, stop_reason |-> stop]

MessageStart(input_tokens) ==
  Event("message_start", -1, "", <<>>, "", input_tokens, 0, "")
BlockStart(idx, kind, sig) ==
  Event("content_block_start", idx, kind, <<>>, sig, 0, 0, "")
BlockDelta(idx, kind, text, sig) ==
  Event("content_block_delta", idx, kind, text, sig, 0, 0, "")
BlockStop(idx) ==
  Event("content_block_stop", idx, "", <<>>, "", 0, 0, "")

(***************************************************************************)
(* Upstream input: usage metadata, parts and chunks.                       *)
(***************************************************************************)
Usage(p, c, t) ==
  [promptTokenCount |-> p, candidatesTokenCount |-> c, totalTokenCount |-> t]
NoUsage == Usage(Absent, Absent, Absent)

\* part["functionCall"]: no such key (k = "absent"), a dict with the keys
\* given ("dict"; id and name are "" when absent), or a truthy value that is
\* not a dict ("bad", on which .get raises).  args is a JSON value [k, v]:
\* "absent", "null", a "string", or a "dict", the sequence of its
\* [key, value] pairs in the order of the document
FunctionCall(k, id, name, args) ==
  [k |-> k, id |-> id, name |-> name, args |-> args]

Part(isdict, thought, text, sig, inline, fc) ==
  [isdict |-> isdict, thought |-> thought, text |-> text,
   thoughtSignature |-> sig, inlineData |-> inline, functionCall |-> fc]

\* Chunks[n]: the chunks that carry n parts.  UsagePairs: the pairs
\* (response.usageMetadata, candidate.usageMetadata) a chunk may carry;
\* PartsUsagePairs: those
\* of the chunks that also carry parts; Parts: the parts a chunk may carry,
\* where inlineData is "absent", a dict ("ok") or a truthy non-dict value
\* ("bad", on which .get raises)
Chunks ==
  [n \in 0..MaxParts |->
     LET FinishReasons == {"", "STOP", "MAX_TOKENS"}
         NoArgs == [k |-> "absent", v |-> <<>>]
         JNull == [k |-> "null", v |-> <<>>]
         JString(s) == [k |-> "string", v |-> s]
         JDict(pairs) == [k |-> "dict", v |-> pairs]
         Pair(key, value) == [key |-> key, value |-> value]
         NoFunctionCall == FunctionCall("absent", "", "", NoArgs)
         \* isdict = FALSE: the JSON document is not an object (data.get
         \* raises)
         Chunk(isdict, up, parts, fin) ==
           [isdict |-> isdict, response_usage |-> up[1],
            candidate_usage |-> up[2], parts |-> parts, finishReason |-> fin]
         UsagePairs ==
           { <<NoUsage, NoUsage>>,
             <<Usage(Null, Absent, Absent), NoUsage>>,
             <<Usage(Num(1), Absent, Absent), Usage(Num(2), Num(2), Absent)>>,
             <<Usage(Str, Absent, Absent), NoUsage>>,
             <<Usage(Num(1), Str, Absent), NoUsage>> }
         PartsUsagePairs ==
           { <<NoUsage, NoUsage>>,
             <<Usage(Num(1), Absent, Absent), NoUsage>> }
         Parts ==
           { Part(TRUE, TRUE, Text(<<"t">>), "", "absent", NoFunctionCall),
             Part(TRUE, TRUE, Text(<<"u">>), "S1", "absent", NoFunctionCall),
             Part(TRUE, FALSE, Text(<<"a">>), "", "absent", NoFunctionCall),
             Part(TRUE, FALSE, Text(<<"b">>), "S2", "absent", NoFunctionCall),
             Part(TRUE, FALSE, Text(<<" ">>), "", "absent",
                  FunctionCall("dict", "", "", NoArgs)),
             Part(TRUE, FALSE, NoText, "", "ok", NoFunctionCall),
             Part(TRUE, FALSE, NoText, "", "absent",
                  FunctionCall("dict", "t1", "search",
                    JDict(<<Pair("q", JString("x")), Pair("y", JNull),
                            Pair("o", JDict(<<Pair("n", JNull)>>))>>))),
             Part(TRUE, FALSE, NoText, "", "absent",
                  FunctionCall("bad", "", "", NoArgs)),
             Part(FALSE, FALSE, NoText, "", "absent", NoFunctionCall) }
     IN  IF n = 0
         THEN { Chunk(TRUE, up, <<>>, fin) : up \in UsagePairs,
                                            fin \in FinishReasons }
                \cup { Chunk(FALSE, <<NoUsage, NoUsage>>, <<>>, "") }
         ELSE { Chunk(TRUE, up, ps, fin) : up \in PartsUsagePairs,
                                          ps \in [1..n -> Parts],
                                          fin \in FinishReasons }]

VARIABLES
  client_thinking_enabled,   \* keyword argument of the translator
  thinking_to_text,          \* keyword argument of the translator
  initial_input_tokens_int,  \* the sanitised pre-flight estimate
  state,                     \* the _StreamingState object
  message_start_sent,
  pending_output,
  thinking_text_buffer,
  ready_output,              \* events computed and not yet yielded
  finish_reason,             \* candidate.finishReason of the current chunk
  pc,                        \* position of the generator
  out,                       \* events yielded to the consumer so far
  nread,                     \* upstream lines consumed
  nparts,                    \* upstream parts consumed
  failed,                    \* history: an exception reached the except clause
  queued,                    \* history: the events held back for message_start
  upstream_finish,           \* history: the finishReason that ended the loop
  fc_seen,                   \* history: a functionCall part was processed
  thoughts,                  \* history: the texts of the thought parts read
  consumer_closed,           \* history: the consumer closed the generator
  response_open              \* the upstream HTTP response is held open

cfgVars ==
  <<client_thinking_enabled, thinking_to_text, initial_input_tokens_int>>
genVars ==
  <<state, message_start_sent, pending_output, thinking_text_buffer>>
histVars == <<failed, queued, upstream_finish, fc_seen, thoughts>>
closeVars == <<consumer_closed, response_open>>
streamVars ==
  <<cfgVars, genVars, ready_output, finish_reason, pc, out, nread, nparts,
    histVars, closeVars>>

VARIABLES
  request,          \* the Anthropic-format request body
  is_configured,    \* AntigravityProvider.is_configured
  rpc,              \* position in stream_response
  components,       \* result of the request translator
  should_include_thinking, \* second result of build_generation_config
  stream_reply      \* the events stream_response has yielded

reqVars ==
  <<request, is_configured, rpc, components, should_include_thinking,
    stream_reply>>

VARIABLES
  handler,          \* one call of create_message, its inputs and its reply
  router,           \* the Router object: rules and default_provider
  router_hist,      \* history of the calls made on the router
  match_call,       \* one call of RoutingRule.matches
  call,             \* one call of a function: its name, arguments and result
  _providers,       \* ProviderRegistry._providers
  registry_calls,   \* history of the calls made on the registry
  monitoring,       \* ProviderRegistry._health_check_task and the monitor
                    \* tasks of the event loop
  routing           \* the Router a request in flight holds while the rules
                    \* of the global router change

\* the variables the streaming translator does not touch
notStreamVars ==
  <<reqVars, handler, router, router_hist, match_call, call, _providers,
    registry_calls, monitoring, routing>>
\* the variables create_message does not touch
notHandlerVars ==
  <<streamVars, reqVars, router, router_hist, match_call, call, _providers,
    registry_calls, monitoring, routing>>

vars ==
  <<streamVars, reqVars, handler, router, router_hist, match_call, call,
    _providers, registry_calls, monitoring, routing>>

(***************************************************************************)
(* _StreamingState and the helpers of the translator.  The helpers work on *)
(* a record L of everything one loop iteration may change:                 *)
(*   st (the _StreamingState), sent (message_start_sent), ready            *)
(*   (ready_output), pending (pending_output), buf (thinking_text_buffer)  *)
(*   and failed (an exception was raised; nothing more is executed).       *)
(***************************************************************************)
StreamingState ==
  [current_block_type |-> "none", current_block_index |-> -1,
   current_thinking_signature |-> "", has_tool_use |-> FALSE,
   input_tokens |-> 0, output_tokens |-> 0, has_input_tokens |-> FALSE,
   has_output_tokens |-> FALSE, finish_reason |-> ""]

Raise(L) == [L EXCEPT !.failed = TRUE]

\* "if message_start_sent: ready_output.append(evt) else: enqueue(evt)"
Emit(L, evt) ==
  IF L.sent THEN [L EXCEPT !.ready = Append(@, evt)]
  ELSE [L EXCEPT !.pending = Append(@, evt)]

next_index(L) ==
  [L EXCEPT !.st.current_block_index = @ + 1]

\* variant: the block is forgotten without a content_block_stop
close_block_if_open_nostop(L) ==
  [L EXCEPT !.st.current_block_type = "none",
            !.st.current_thinking_signature = ""]

close_block_if_open(L) ==
  IF L.st.current_block_type = "none" THEN L
  ELSE [Emit(L, BlockStop(L.st.current_block_index))
          EXCEPT !.st.current_block_type = "none",
                 !.st.current_thinking_signature = ""]

\* variant: the text block reuses the index of the previous block
open_text_block_reuse(L) ==
  [Emit(L, BlockStart(Max(0, L.st.current_block_index), "text", ""))
     EXCEPT !.st.current_block_type = "text",
            !.st.current_block_index = Max(0, @)]

open_text_block(L) ==
  LET L1 == next_index(L)
  IN  [Emit(L1, BlockStart(L1.st.current_block_index, "text", ""))
         EXCEPT !.st.current_block_type = "text"]

open_thinking_block(L, signature) ==
  LET L1 == next_index(L)
  IN  [Emit(L1, BlockStart(L1.st.current_block_index, "thinking", signature))
         EXCEPT !.st.current_block_type = "thinking",
                !.st.current_thinking_signature = signature]

pick_usage_metadata(response_usage, candidate_usage) ==
  LET score(d) ==
        Cardinality({f \in {"promptTokenCount", "candidatesTokenCount",
                            "totalTokenCount"} :
                       d[f].k \notin {"absent", "null"}})
  IN  IF score(candidate_usage) > score(response_usage)
      THEN candidate_usage ELSE response_usage

\* flush_pending_ready is the tail of send_message_start
send_message_start(L, input_tokens) ==
  IF L.sent THEN L
  ELSE [L EXCEPT !.sent = TRUE,
                 !.ready = Append(@, MessageStart(input_tokens)) \o L.pending,
                 !.pending = <<>>]

WrappedThinking(buf, tail) ==
  <<"<assistant_thinking>\n">> \o buf \o <<tail>>

TextTruthy(t) == \/ t.k = "num"
                 \/ t.k = "str" /\ t.s # <<>>

\* variant: every signature received for an open thinking block is emitted
SignatureStep_every_signature(L, part) ==
  IF /\ part.thoughtSignature # ""
     /\ L.st.current_block_type = "thinking"
  THEN [Emit(L, BlockDelta(L.st.current_block_index, "signature_delta",
                           <<>>, part.thoughtSignature))
          EXCEPT !.st.current_thinking_signature = part.thoughtSignature]
  ELSE L

\* lines 265-291: signature delta for the open thinking block
SignatureStep(L, part) ==
  IF /\ part.thoughtSignature # ""
     /\ L.st.current_block_type = "thinking"
     /\ L.st.current_thinking_signature = ""
  THEN [Emit(L, BlockDelta(L.st.current_block_index, "signature_delta",
                           <<>>, part.thoughtSignature))
          EXCEPT !.st.current_thinking_signature = part.thoughtSignature]
  ELSE L

\* variant: a thought part closes the open block when thinking is disabled
ThoughtPart_closes_block(L, part) ==
  IF ~client_thinking_enabled
  THEN IF thinking_to_text /\ TextTruthy(part.text)
       THEN IF part.text.k = "num" THEN Raise(L)
            ELSE [L EXCEPT !.buf = @ \o part.text.s]
       ELSE close_block_if_open(L)
  ELSE LET L1 == IF L.st.current_block_type # "thinking"
                 THEN open_thinking_block(close_block_if_open(L),
                                          part.thoughtSignature)
                 ELSE L
       IN  IF TextTruthy(part.text)
           THEN Emit(L1, BlockDelta(L1.st.current_block_index,
                                    "thinking_delta", part.text.s, ""))
           ELSE L1

\* lines 293-335
ThoughtPart(L, part) ==
  IF ~client_thinking_enabled
  THEN IF thinking_to_text /\ TextTruthy(part.text)
       THEN IF part.text.k = "num" THEN Raise(L)
            ELSE [L EXCEPT !.buf = @ \o part.text.s]
       ELSE L
  ELSE LET L1 == IF L.st.current_block_type # "thinking"
                 THEN open_thinking_block(close_block_if_open(L),
                                          part.thoughtSignature)
                 ELSE L
       IN  IF TextTruthy(part.text)
           THEN Emit(L1, BlockDelta(L1.st.current_block_index,
                                    "thinking_delta", part.text.s, ""))
           ELSE L1

\* lines 337-388
TextPart(L, part) ==
  IF part.text.k = "str" /\ IsBlank(part.text.s) THEN L
  ELSE LET L1 == IF L.st.current_block_type # "text"
                 THEN open_text_block(close_block_if_open(L))
                 ELSE L
           L2 == IF L1.buf # <<>>
                 THEN [Emit(L1, BlockDelta(L1.st.current_block_index,
                          "text_delta",
                          WrappedThinking(L1.buf, "</assistant_thinking>\n\n"),
                          ""))
                         EXCEPT !.buf = <<>>]
                 ELSE L1
       IN  IF TextTruthy(part.text)
           THEN Emit(L2, BlockDelta(L2.st.current_block_index, "text_delta",
                                    part.text.s, ""))
           ELSE L2

\* lines 390-425
InlineDataPart(L, part) ==
  LET L1 == next_index(close_block_if_open(L))
      idx == L1.st.current_block_index
  IN  IF part.inlineData = "bad" THEN Raise(L1)
      ELSE Emit(Emit(L1, BlockStart(idx, "image", "")), BlockStop(idx))

\* remove_nulls_for_tool_input: the arguments walked recursively, the keys
\* whose value is null removed
RECURSIVE remove_nulls_for_tool_input(_)
remove_nulls_for_tool_input(value) ==
  IF value.k = "dict"
  THEN LET kept == SelectSeq(value.v, LAMBDA pair : pair.value.k # "null")
       IN  [k |-> "dict",
            v |-> [i \in 1..Len(kept) |->
                     [key |-> kept[i].key,
                      value |-> remove_nulls_for_tool_input(kept[i].value)]]]
  ELSE value

\* json.dumps(tool_args, ensure_ascii=False, separators=(",", ":"))
RECURSIVE json_dumps(_)
json_dumps(value) ==
  IF value.k = "dict"
  THEN LET item(i) == "\"" \o value.v[i].key \o "\":"
                        \o json_dumps(value.v[i].value)
           join[i \in 0..Len(value.v)] ==
             IF i = 0 THEN ""
             ELSE IF i = 1 THEN item(1)
             ELSE join[i - 1] \o "," \o item(i)
       IN  "{" \o join[Len(value.v)] \o "}"
  ELSE IF value.k = "string" THEN "\"" \o value.v \o "\""
  ELSE "null"

\* variant: the arguments are serialised with their null values
FunctionCallPart_keeps_nulls(L, part) ==
  LET L1 == [close_block_if_open(L) EXCEPT !.st.has_tool_use = TRUE]
      fc == part.functionCall
      tool_id == IF fc.id # "" THEN fc.id ELSE "toolu_uuid4"
      tool_args == IF fc.args.k = "absent" THEN [k |-> "dict", v |-> <<>>]
                   ELSE fc.args
      L2 == next_index(L1)
      idx == L2.st.current_block_index
  IN  IF fc.k = "bad" THEN Raise(L1)
      ELSE Emit(Emit(Emit(L2, Event("content_block_start", idx, "tool_use",
                                    <<tool_id, fc.name>>, "", 0, 0, "")),
                     BlockDelta(idx, "input_json_delta",
                                <<json_dumps(tool_args)>>, "")),
                BlockStop(idx))

\* lines 427-481; a generated id "toolu_" + uuid4().hex is "toolu_uuid4";
\* the text of the content_block_start of a tool_use block holds the id and
\* the name of the block, whose input is always {}
FunctionCallPart(L, part) ==
  LET L1 == [close_block_if_open(L) EXCEPT !.st.has_tool_use = TRUE]
      fc == part.functionCall
      tool_id == IF fc.id # "" THEN fc.id ELSE "toolu_uuid4"
      tool_args == remove_nulls_for_tool_input(
                     IF fc.args.k = "absent" THEN [k |-> "dict", v |-> <<>>]
                     ELSE fc.args)
      L2 == next_index(L1)
      idx == L2.st.current_block_index
  IN  IF fc.k = "bad" THEN Raise(L1)
      ELSE Emit(Emit(Emit(L2, Event("content_block_start", idx, "tool_use",
                                    <<tool_id, fc.name>>, "", 0, 0, "")),
                     BlockDelta(idx, "input_json_delta",
                                <<json_dumps(tool_args)>>, "")),
                BlockStop(idx))

\* which branch of the loop body a part takes
Branch(part) ==
  IF ~part.isdict THEN "skip"
  ELSE IF part.thought THEN "thought"
  ELSE IF part.text.k # "absent" THEN "text"
  ELSE IF part.inlineData # "absent" THEN "inlineData"
  ELSE IF part.functionCall.k # "absent" THEN "functionCall"
  ELSE "none"

\* one iteration of "for part in parts" (lines 248-481)
ProcessPart(L, part) ==
  IF L.failed \/ ~part.isdict THEN L
  ELSE LET L1 == SignatureStep(L, part)
           b == Branch(part)
       IN  CASE b = "thought" -> ThoughtPart(L1, part)
             [] b = "text" -> TextPart(L1, part)
             [] b = "inlineData" -> InlineDataPart(L1, part)
             [] b = "functionCall" -> FunctionCallPart(L1, part)
             [] OTHER -> L1

RECURSIVE ProcessParts(_, _)
ProcessParts(L, parts) ==
  IF parts = <<>> THEN L
  ELSE ProcessParts(ProcessPart(L, Head(parts)), Tail(parts))

\* lines 231-242: capture usageMetadata
CaptureUsage(L, chunk) ==
  LET usage == pick_usage_metadata(chunk.response_usage, chunk.candidate_usage)
      p == usage.promptTokenCount
      c == usage.candidatesTokenCount
      L1 == IF p.k = "absent" THEN L
            ELSE IF IntOrZeroFails(p) THEN Raise(L)
            ELSE [L EXCEPT !.st.input_tokens = IntOrZero(p),
                           !.st.has_input_tokens = TRUE]
  IN  IF L1.failed \/ c.k = "absent" THEN L1
      ELSE IF IntOrZeroFails(c) THEN Raise(L1)
      ELSE [L1 EXCEPT !.st.output_tokens = IntOrZero(c),
                      !.st.has_output_tokens = TRUE]

\* lines 227-483: the body of the loop for one parsed chunk
ProcessChunk(L, chunk) ==
  IF ~chunk.isdict THEN Raise(L)
  ELSE LET L1 == CaptureUsage(L, chunk)
           L2 == IF L1.failed THEN L1
                 ELSE IF L1.st.has_input_tokens /\ ~L1.sent
                 THEN send_message_start(L1, L1.st.input_tokens)
                 ELSE L1
       IN  ProcessParts(L2, chunk.parts)

\* lines 569-595: the except clause
ExceptHandler(sent) ==
  (IF ~sent THEN <<MessageStart(initial_input_tokens_int)>> ELSE <<>>)
  \o <<Event("error", -1, "api_error", <<>>, "", 0, 0, "")>>

\* variant: MAX_TOKENS wins over a tool call
StopReason_max_first(st) ==
  IF st.finish_reason = "MAX_TOKENS" THEN "max_tokens"
  ELSE IF st.has_tool_use THEN "tool_use" ELSE "end_turn"

\* lines 540-542
StopReason(st) ==
  LET stop_reason == IF st.has_tool_use THEN "tool_use" ELSE "end_turn"
  IN  IF st.finish_reason = "MAX_TOKENS" /\ ~st.has_tool_use
      THEN "max_tokens" ELSE stop_reason

\* lines 493-567: everything after the loop
Epilogue(L) ==
  LET L1 == IF L.buf # <<>>
            THEN LET La == open_text_block(close_block_if_open(L))
                 IN  Emit(La, BlockDelta(La.st.current_block_index,
                            "text_delta",
                            WrappedThinking(La.buf, "</assistant_thinking>"),
                            ""))
            ELSE L
      L2 == close_block_if_open(L1)
      L3 == send_message_start(L2, initial_input_tokens_int)
      \* lines 552-566
      FinalMessageDelta(st) ==
        Event("message_delta", -1, "", <<>>, "",
              IF st.has_input_tokens THEN st.input_tokens
              ELSE initial_input_tokens_int,
              IF st.has_output_tokens THEN st.output_tokens ELSE 0,
              StopReason(st))
  IN  [L3 EXCEPT !.ready =
         @ \o <<FinalMessageDelta(L3.st),
                Event("message_stop", -1, "", <<>>, "", 0, 0, "")>>]

Local ==
  [st |-> state, sent |-> message_start_sent, ready |-> <<>>,
   pending |-> pending_output, buf |-> thinking_text_buffer,
   failed |-> FALSE]

(***************************************************************************)
(* The generator antigravity_sse_to_anthropic_sse as a state machine.      *)
(* pc: "loop" (awaiting the next upstream line), "yield_ready" (yielding   *)
(* the ready_output of a chunk, lines 485-487), "epilogue" (after the      *)
(* loop), "yield_final" (yielding the events of the epilogue or of the     *)
(* except clause), "done".                                                 *)
(***************************************************************************)

\* lines 209-210: an empty line or a line without the "data: " prefix
SkipLine ==
  /\ pc = "loop" /\ nread < MaxLines
  /\ nread' = nread + 1
  /\ UNCHANGED <<cfgVars, genVars, ready_output, finish_reason, pc, out,
                 nparts, histVars>>
  /\ UNCHANGED closeVars
  /\ UNCHANGED notStreamVars

\* lines 222-225: json.loads fails, the line is dropped
BadJson ==
  /\ pc = "loop" /\ nread < MaxLines
  /\ nread' = nread + 1
  /\ ready_output' = <<>>
  /\ UNCHANGED <<cfgVars, genVars, finish_reason, pc, out, nparts, histVars>>
  /\ UNCHANGED closeVars
  /\ UNCHANGED notStreamVars

\* lines 213-214: "data: [DONE]"
DoneLine ==
  /\ pc = "loop" /\ nread < MaxLines
  /\ nread' = nread + 1
  /\ pc' = "epilogue"
  /\ UNCHANGED <<cfgVars, genVars, ready_output, finish_reason, out, nparts,
                 histVars>>
  /\ UNCHANGED closeVars
  /\ UNCHANGED notStreamVars

\* line 207: the upstream iterator is exhausted
UpstreamClosed ==
  /\ pc = "loop"
  /\ pc' = "epilogue"
  /\ UNCHANGED <<cfgVars, genVars, ready_output, finish_reason, out, nread,
                 nparts, histVars>>
  /\ UNCHANGED closeVars
  /\ UNCHANGED notStreamVars

\* line 207: reading upstream raises; control goes to the except clause
UpstreamError ==
  /\ pc = "loop"
  /\ failed' = TRUE
  /\ ready_output' = ExceptHandler(message_start_sent)
  /\ pc' = "yield_final"
  /\ UNCHANGED <<cfgVars, genVars, finish_reason, out, nread, nparts,
                 queued, upstream_finish, fc_seen, thoughts>>
  /\ UNCHANGED closeVars
  /\ UNCHANGED notStreamVars

\* lines 208-483: one parsed chunk, up to the yields of line 485
ChunkLine ==
  /\ pc = "loop" /\ nread < MaxLines
  /\ \E n \in 0..(MaxParts - nparts) : \E chunk \in Chunks[n] :
       LET L == ProcessChunk(Local, chunk)
       IN  /\ nparts' = nparts + n
           /\ state' = L.st
           /\ message_start_sent' = L.sent
           /\ pending_output' = L.pending
           /\ thinking_text_buffer' = L.buf
           /\ failed' = L.failed
           /\ queued' = IF message_start_sent THEN queued
                        ELSE IF L.sent THEN pending_output
                        ELSE L.pending
           /\ fc_seen' = (fc_seen \/ \E i \in 1..Len(chunk.parts) :
                                       Branch(chunk.parts[i]) = "functionCall")
           /\ thoughts' =
                LET texts[i \in 0..Len(chunk.parts)] ==
                      IF i = 0 THEN thoughts
                      ELSE IF /\ Branch(chunk.parts[i]) = "thought"
                              /\ TextTruthy(chunk.parts[i].text)
                      THEN Append(texts[i - 1], chunk.parts[i].text.s)
                      ELSE texts[i - 1]
                IN  texts[Len(chunk.parts)]
           /\ IF L.failed
              THEN /\ ready_output' = ExceptHandler(L.sent)
                   /\ finish_reason' = ""
                   /\ pc' = "yield_final"
              ELSE /\ ready_output' = L.ready
                   /\ finish_reason' = chunk.finishReason
                   /\ pc' = "yield_ready"
  /\ nread' = nread + 1
  /\ UNCHANGED <<cfgVars, out, upstream_finish>>
  /\ UNCHANGED closeVars
  /\ UNCHANGED notStreamVars

\* "yield evt": one event reaches the consumer
Yield ==
  /\ pc \in {"yield_ready", "yield_final"}
  /\ ready_output # <<>>
  /\ out' = Append(out, Head(ready_output))
  /\ ready_output' = Tail(ready_output)
  /\ UNCHANGED <<cfgVars, genVars, finish_reason, pc, nread, nparts,
                 histVars>>
  /\ UNCHANGED closeVars
  /\ UNCHANGED notStreamVars

\* lines 489-491: after the yields of a chunk
EndChunk ==
  /\ pc = "yield_ready"
  /\ ready_output = <<>>
  /\ IF finish_reason # ""
     THEN /\ state' = [state EXCEPT !.finish_reason = finish_reason]
          /\ upstream_finish' = finish_reason
          /\ pc' = "epilogue"
     ELSE /\ UNCHANGED <<state, upstream_finish>>
          /\ pc' = "loop"
  /\ finish_reason' = ""
  /\ UNCHANGED <<cfgVars, message_start_sent, pending_output,
                 thinking_text_buffer, ready_output, out, nread, nparts,
                 failed, queued, fc_seen, thoughts>>
  /\ UNCHANGED closeVars
  /\ UNCHANGED notStreamVars

\* lines 493-567: flush, close, message_start fallback, message_delta,
\* message_stop
StreamEpilogue ==
  /\ pc = "epilogue"
  /\ LET L == Epilogue(Local)
     IN  /\ state' = L.st
         /\ message_start_sent' = L.sent
         /\ pending_output' = L.pending
         /\ thinking_text_buffer' = L.buf
         /\ ready_output' = L.ready
         /\ queued' = IF message_start_sent THEN queued
                      ELSE SubSeq(L.ready, 2, Len(L.ready) - 2)
  /\ pc' = "yield_final"
  /\ UNCHANGED <<cfgVars, finish_reason, out, nread, nparts, failed,
                 upstream_finish, fc_seen, thoughts>>
  /\ UNCHANGED closeVars
  /\ UNCHANGED notStreamVars

\* the generator returns; the "async for" of stream_response ends and its
\* "async with client.stream(...)" block is left (antigravity.py 308-339)
Return ==
  /\ pc = "yield_final"
  /\ ready_output = <<>>
  /\ pc' = "done"
  /\ response_open' = FALSE
  /\ UNCHANGED <<cfgVars, genVars, ready_output, finish_reason, out, nread,
                 nparts, histVars, consumer_closed>>
  /\ UNCHANGED notStreamVars

\* "except Exception" (line 569) catches the exceptions that derive from
\* Exception; GeneratorExit (aclose() at a yield) and CancelledError (task
\* cancellation at an await) derive from BaseException only
except_Exception_catches_all(exc) == TRUE
except_Exception_catches(exc) == exc \notin {"GeneratorExit", "CancelledError"}

\* an exception no clause catches unwinds the generator, whose locals are
\* released with its frame, and then the "async with client.stream(...)"
\* block of stream_response, which closes the upstream response
Unwind ==
  /\ state' = StreamingState
  /\ message_start_sent' = FALSE
  /\ pending_output' = <<>>
  /\ thinking_text_buffer' = <<>>
  /\ ready_output' = <<>>
  /\ finish_reason' = ""
  /\ pc' = "closed"
  /\ response_open' = FALSE

\* the consumer closes the generator while it is suspended at a yield: the
\* event of that yield was delivered, GeneratorExit is raised at the yield.
\* The yields of lines 485-487 and 493-567 are inside the try block, those
\* of the except clause are not.
CloseAtYield ==
  /\ pc \in {"yield_ready", "yield_final"}
  /\ ready_output # <<>>
  /\ ~consumer_closed
  /\ out' = Append(out, Head(ready_output))
  /\ consumer_closed' = TRUE
  /\ IF ~failed /\ except_Exception_catches("GeneratorExit")
     THEN /\ failed' = TRUE
          /\ ready_output' = ExceptHandler(message_start_sent)
          /\ pc' = "yield_final"
          /\ UNCHANGED response_open
          /\ UNCHANGED <<genVars, finish_reason>>
     ELSE /\ Unwind
          /\ UNCHANGED failed
  /\ UNCHANGED <<cfgVars, nread, nparts, queued, upstream_finish, fc_seen,
                 thoughts>>
  /\ UNCHANGED notStreamVars

\* the task is cancelled while the generator awaits the next upstream line
\* (line 207, inside the try block): CancelledError is raised at the await
CancelAtRead ==
  /\ pc = "loop"
  /\ ~consumer_closed
  /\ consumer_closed' = TRUE
  /\ IF except_Exception_catches("CancelledError")
     THEN /\ failed' = TRUE
          /\ ready_output' = ExceptHandler(message_start_sent)
          /\ pc' = "yield_final"
          /\ UNCHANGED response_open
          /\ UNCHANGED <<genVars, finish_reason>>
     ELSE /\ Unwind
          /\ UNCHANGED failed
  /\ UNCHANGED <<cfgVars, out, nread, nparts, queued, upstream_finish,
                 fc_seen, thoughts>>
  /\ UNCHANGED notStreamVars

(***************************************************************************)
(* Properties of the streaming translator.                                 *)
(***************************************************************************)
CountType(o, t, i) == Cardinality({j \in 1..i : o[j].type = t})
StartsBefore(o, i) == CountType(o, "content_block_start", i - 1)
StopsBefore(o, i) == CountType(o, "content_block_stop", i - 1)

\* b is a sequence of complete content blocks: start, delta*, stop
CompleteBlocks(b) ==
  /\ \A i \in 1..Len(b) :
       /\ b[i].type \in {"content_block_start", "content_block_delta",
                         "content_block_stop"}
       /\ b[i].type = "content_block_start" =>
            StartsBefore(b, i) = StopsBefore(b, i)
       /\ b[i].type # "content_block_start" =>
            StartsBefore(b, i) = StopsBefore(b, i) + 1
  /\ CountType(b, "content_block_start", Len(b))
       = CountType(b, "content_block_stop", Len(b))

IsSentence(o) ==
  /\ Len(o) >= 3
  /\ o[1].type = "message_start"
  /\ CompleteBlocks(SubSeq(o, 2, Len(o) - 2))
  /\ o[Len(o) - 1].type = "message_delta"
  /\ o[Len(o)].type = "message_stop"

\* C1: a stream consumed without a failure emits exactly message_start,
\* then complete content blocks, then one message_delta, then one
\* message_stop, and nothing after it.
C1_OutputGrammar ==
  (pc = "done" /\ ~failed) => IsSentence(out)

\* a finished stream of two lines with at least two blocks that carry deltas
C1_Witness ==
  /\ pc = "done" /\ ~failed /\ nread = 2
  /\ Len(out) >= 9
  /\ IsSentence(out)

\* C2: the k-th content_block_start carries index k-1 and is emitted only
\* when no block is open; every delta and stop carries the index of the open
\* block; every block is stopped before the next start and before
\* message_delta.
C2_BlockIndices ==
  \A i \in 1..Len(out) :
    LET e == out[i]
        opened == StartsBefore(out, i)
        closed == StopsBefore(out, i)
    IN  /\ e.type = "content_block_start" =>
             e.index = opened /\ opened = closed
        /\ e.type \in {"content_block_delta", "content_block_stop"} =>
             opened = closed + 1 /\ e.index = opened - 1
        /\ e.type = "message_delta" => opened = closed

\* two blocks were opened and closed, the second being a text block on index 1
C2_Witness ==
  /\ pc = "done"
  /\ \E i \in 1..Len(out) :
       /\ out[i].type = "content_block_start"
       /\ out[i].kind = "text"
       /\ out[i].index = 1
  /\ CountType(out, "content_block_stop", Len(out)) = 2

\* C3: no event is emitted before message_start; the events held in the
\* pending queue are emitted right after message_start, in order, none lost
\* or duplicated.
C3_MessageStartFirst ==
  /\ out # <<>> => out[1].type = "message_start"
  /\ (pc = "done" /\ ~failed) =>
       /\ Len(out) >= 1 + Len(queued)
       /\ SubSeq(out, 2, 1 + Len(queued)) = queued

\* C4: after a failure the output ends with exactly one error event, which
\* a message_start precedes; an error event is emitted only on a failure.
C4_ErrorAfterMessageStart ==
  /\ \A i \in 1..Len(out) :
       out[i].type = "error" => failed /\ i = Len(out)
  /\ (pc = "done" /\ failed) =>
       /\ out # <<>>
       /\ out[Len(out)].type = "error"
       /\ CountType(out, "error", Len(out)) = 1
       /\ \E j \in 1..(Len(out) - 1) : out[j].type = "message_start"

\* C5: message_start carries a non-negative input_tokens and the final
\* message_delta carries the same value.
C5_InputTokensAgree ==
  (pc = "done" /\ ~failed) =>
    LET ms == out[1]
        md == out[Len(out) - 1]
    IN  /\ ms.type = "message_start" /\ md.type = "message_delta"
        /\ ms.input_tokens >= 0
        /\ md.input_tokens >= 0
        /\ md.input_tokens = ms.input_tokens

\* C6: stop_reason is tool_use iff a functionCall part was processed,
\* otherwise max_tokens iff the upstream finishReason was MAX_TOKENS,
\* otherwise end_turn.
C6_StopReason ==
  (pc = "done" /\ ~failed) =>
    LET md == out[Len(out) - 1]
    IN  /\ md.type = "message_delta"
        /\ md.stop_reason =
             IF fc_seen THEN "tool_use"
             ELSE IF upstream_finish = "MAX_TOKENS" THEN "max_tokens"
             ELSE "end_turn"

\* a tool call in a stream that upstream ended with MAX_TOKENS
C6_Witness ==
  /\ pc = "done" /\ ~failed
  /\ fc_seen /\ upstream_finish = "MAX_TOKENS"
  /\ out[Len(out) - 1].stop_reason = "tool_use"


(***************************************************************************)
(* Part II.  The request translator (converter.py) and the configuration   *)
(* of the streaming translator by AntigravityProvider.stream_response.     *)
(***************************************************************************)
\* number of messages in the history of a request
MaxMsgs == 2

DEFAULT_THINKING_BUDGET == 1024

\* the "thinking" field of a request: absent, null, a boolean, a dict (type
\* "" when the dict has no "type" key) or a value of any other kind
ThinkingAbsent == [k |-> "absent", b |-> FALSE, type |-> "", budget_tokens |-> Absent]
ThinkingBool(b) == [k |-> "bool", b |-> b, type |-> "", budget_tokens |-> Absent]
ThinkingDict(type, budget) ==
  [k |-> "dict", b |-> FALSE, type |-> type, budget_tokens |-> budget]

ThinkingValues ==
  { ThinkingAbsent, ThinkingBool(TRUE), ThinkingBool(FALSE),
    ThinkingDict("enabled", Absent), ThinkingDict("enabled", Num(1000)),
    ThinkingDict("enabled", Num(0)),
    ThinkingDict("disabled", Absent), ThinkingDict("", Absent),
    ThinkingDict("auto", Absent),
    [k |-> "null", b |-> FALSE, type |-> "", budget_tokens |-> Absent],
    [k |-> "other", b |-> FALSE, type |-> "", budget_tokens |-> Absent] }

\* a content block of a message; isdict = FALSE is a bare string item,
\* type "" a dict without "type", signature "" a missing or empty signature
Block(isdict, type, signature, text, id) ==
  [isdict |-> isdict, type |-> type, signature |-> signature, text |-> text,
   id |-> id]


\* content is a string (ckind "str") or a list of blocks (ckind "list")
Message(role, ckind, text, blocks) ==
  [role |-> role, ckind |-> ckind, text |-> text, blocks |-> blocks]

\* the requests: Messages are the messages a history is made of
Requests ==
  LET ThinkingBlock(sig) == Block(TRUE, "thinking", sig, <<"h">>, "")
      TextBlock == Block(TRUE, "text", "", <<"x">>, "")
      ToolUseBlock(id) == Block(TRUE, "tool_use", "", <<>>, id)
      Messages ==
        { Message("user", "str", <<"q">>, <<>>),
          Message("assistant", "str", <<"k">>, <<>>),
          Message("assistant", "list", <<>>, <<>>),
          Message("assistant", "list", <<>>, <<ThinkingBlock("G1"), TextBlock>>),
          Message("assistant", "list", <<>>, <<ThinkingBlock(""), TextBlock>>),
          Message("assistant", "list", <<>>,
                  <<Block(TRUE, "redacted_thinking", "G2", <<"r">>, ""),
                    ToolUseBlock("A")>>),
          Message("assistant", "list", <<>>, <<TextBlock, ThinkingBlock("G1")>>),
          Message("assistant", "list", <<>>,
                  <<Block(FALSE, "", "", <<"s">>, ""), TextBlock>>),
          Message("assistant", "list", <<>>, <<ToolUseBlock("A")>>),
          Message("user", "list", <<>>,
                  <<Block(TRUE, "tool_result", "", <<"o">>, "A")>>) }
  IN  [model : {"claude-opus-4-5", "claude-sonnet-4-5-nothinking"},
       thinking : ThinkingValues,
       max_tokens : {Absent, Num(1), Num(500), Num(4096)},
       messages : UNION { [1..n -> Messages] : n \in 0..MaxMsgs }]

\* get_thinking_config; thinkingBudget Absent when the dict has no such key
get_thinking_config(thinking) ==
  IF thinking.k = "null"
  THEN [includeThoughts |-> TRUE, thinkingBudget |-> Num(DEFAULT_THINKING_BUDGET)]
  ELSE IF thinking.k = "bool"
  THEN IF thinking.b
       THEN [includeThoughts |-> TRUE,
             thinkingBudget |-> Num(DEFAULT_THINKING_BUDGET)]
       ELSE [includeThoughts |-> FALSE, thinkingBudget |-> Absent]
  ELSE IF thinking.k = "dict"
  THEN LET thinking_type == IF thinking.type = "" THEN "enabled"
                            ELSE thinking.type
       IN  IF thinking_type # "enabled"
           THEN [includeThoughts |-> FALSE, thinkingBudget |-> Absent]
           ELSE [includeThoughts |-> TRUE,
                 thinkingBudget |->
                   IF thinking.budget_tokens.k = "absent"
                   THEN Num(DEFAULT_THINKING_BUDGET)
                   ELSE thinking.budget_tokens]
  ELSE [includeThoughts |-> TRUE, thinkingBudget |-> Num(DEFAULT_THINKING_BUDGET)]

\* lines 537-550: the index of the message at which the reversed scan
\* breaks, 0 when it runs to the end
RECURSIVE ExaminedIndex(_, _)
ExaminedIndex(messages, i) ==
  IF i = 0 THEN 0
  ELSE IF messages[i].role # "assistant" THEN ExaminedIndex(messages, i - 1)
  ELSE IF messages[i].ckind # "list" \/ messages[i].blocks = <<>>
       THEN ExaminedIndex(messages, i - 1)
  ELSE i

NoThinkingConfig ==
  [present |-> FALSE, includeThoughts |-> FALSE, thinkingBudget |-> Absent]

\* build_generation_config, lines 517-600: (config, should_include_thinking)
build_generation_config(payload) ==
  LET base == [maxOutputTokens |-> payload.max_tokens,
               thinkingConfig |-> NoThinkingConfig]
      thinking_value == payload.thinking
  IN  IF thinking_value.k \in {"absent", "null"}
      THEN [config |-> base, include |-> FALSE]
      ELSE
        LET thinking_config == get_thinking_config(thinking_value)
            include_thoughts == thinking_config.includeThoughts
            \* lines 536-550; "none" is Python's None
            first_type ==
              LET i == ExaminedIndex(payload.messages, Len(payload.messages))
              IN  IF i = 0 THEN "none"
                  ELSE LET first_block == payload.messages[i].blocks[1]
                       IN  IF first_block.isdict /\ first_block.type # ""
                           THEN first_block.type ELSE "none"
            max_tokens == payload.max_tokens
            budget == thinking_config.thinkingBudget
            adjust == /\ include_thoughts /\ max_tokens.k = "int"
                      /\ budget.k = "int" /\ budget.v >= max_tokens.v
            adjusted_budget == Max(0, max_tokens.v - 1)
        IN  IF include_thoughts
               /\ first_type \notin {"none", "thinking", "redacted_thinking"}
            THEN [config |-> base, include |-> FALSE]
            ELSE IF adjust /\ adjusted_budget <= 0
            THEN [config |-> base, include |-> FALSE]
            ELSE [config |->
                    [base EXCEPT !.thinkingConfig =
                       [present |-> TRUE,
                        includeThoughts |-> include_thoughts,
                        thinkingBudget |->
                          IF adjust THEN Num(adjusted_budget) ELSE budget]],
                  include |-> include_thoughts]

\* a part of the downstream contents
ContentPart(kind, text, sig, id) ==
  [kind |-> kind, text |-> text, thoughtSignature |-> sig, id |-> id]

\* variant: a thinking block without a signature is forwarded too
ConvertItem_unsigned_forwarded(item, include_thinking) ==
  IF ~item.isdict
  THEN IF IsBlank(item.text) THEN <<>>
       ELSE <<ContentPart("text", item.text, "", "")>>
  ELSE IF item.type \in {"thinking", "redacted_thinking"}
  THEN IF ~include_thinking THEN <<>>
       ELSE <<ContentPart("thought", item.text, item.signature, "")>>
  ELSE IF item.type = "text"
  THEN IF IsBlank(item.text) THEN <<>>
       ELSE <<ContentPart("text", item.text, "", "")>>
  ELSE IF item.type = "tool_use"
  THEN <<ContentPart("functionCall", <<>>, "", item.id)>>
  ELSE IF item.type = "tool_result"
  THEN <<ContentPart("functionResponse", item.text, "", item.id)>>
  ELSE <<ContentPart("text", <<"{", "}">>, "", "")>>

\* lines 310-392: the parts one content item yields (none or one)
ConvertItem(item, include_thinking) ==
  IF ~item.isdict
  THEN IF IsBlank(item.text) THEN <<>>
       ELSE <<ContentPart("text", item.text, "", "")>>
  ELSE IF item.type \in {"thinking", "redacted_thinking"}
  THEN IF ~include_thinking \/ item.signature = "" THEN <<>>
       ELSE <<ContentPart("thought", item.text, item.signature, "")>>
  ELSE IF item.type = "text"
  THEN IF IsBlank(item.text) THEN <<>>
       ELSE <<ContentPart("text", item.text, "", "")>>
  ELSE IF item.type = "tool_use"
  THEN <<ContentPart("functionCall", <<>>, "", item.id)>>
  ELSE IF item.type = "tool_result"
  THEN <<ContentPart("functionResponse", item.text, "", item.id)>>
  ELSE <<ContentPart("text", <<"{", "}">>, "", "")>>

RECURSIVE ConvertItems(_, _)
ConvertItems(items, include_thinking) ==
  IF items = <<>> THEN <<>>
  ELSE ConvertItem(Head(items), include_thinking)
         \o ConvertItems(Tail(items), include_thinking)

\* lines 301-395: the parts of one message
MessageParts(msg, include_thinking) ==
  IF msg.ckind = "str"
  THEN IF IsBlank(msg.text) THEN <<>>
       ELSE <<ContentPart("text", msg.text, "", "")>>
  ELSE ConvertItems(msg.blocks, include_thinking)

\* convert_messages_to_contents
RECURSIVE convert_messages_to_contents(_, _)
convert_messages_to_contents(messages, include_thinking) ==
  IF messages = <<>> THEN <<>>
  ELSE LET msg == Head(messages)
           parts == MessageParts(msg, include_thinking)
           rest == convert_messages_to_contents(Tail(messages),
                                                include_thinking)
       IN  IF parts = <<>> THEN rest
           ELSE <<[role |-> IF msg.role = "assistant" THEN "model" ELSE "user",
                   parts |-> parts]>> \o rest

\* lines 425-429: one Content per part
RECURSIVE Flatten(_)
Flatten(contents) ==
  IF contents = <<>> THEN <<>>
  ELSE LET msg == Head(contents)
       IN  [i \in 1..Len(msg.parts) |->
              [role |-> msg.role, parts |-> <<msg.parts[i]>>]]
           \o Flatten(Tail(contents))

\* lines 416-423: the positions of the responses stored under an id
ResponsesOf(flattened, id) ==
  {i \in 1..Len(flattened) :
     /\ flattened[i].parts[1].kind = "functionResponse"
     /\ flattened[i].parts[1].id = id
     /\ id # ""}

MaxOf(S) == CHOOSE m \in S : \A n \in S : n <= m

\* lines 431-454: the walk over the flattened list
RECURSIVE Walk_keeps_responses(_, _)
Walk_keeps_responses(flattened, i) ==
  IF i > Len(flattened) THEN <<>>
  ELSE LET msg == flattened[i]
           part == msg.parts[1]
       IN  IF part.kind = "functionCall"
           THEN <<[role |-> "model", parts |-> <<part>>]>>
                \o (IF ResponsesOf(flattened, part.id) # {}
                    THEN <<[role |-> "user",
                            parts |-> <<flattened[MaxOf(ResponsesOf(flattened,
                                                  part.id))].parts[1]>>]>>
                    ELSE <<>>)
                \o Walk_keeps_responses(flattened, i + 1)
           ELSE <<msg>> \o Walk_keeps_responses(flattened, i + 1)
RECURSIVE Walk(_, _)
Walk(flattened, i) ==
  IF i > Len(flattened) THEN <<>>
  ELSE LET msg == flattened[i]
           part == msg.parts[1]
       IN  IF part.kind = "functionResponse" THEN Walk(flattened, i + 1)
           ELSE IF part.kind = "functionCall"
           THEN <<[role |-> "model", parts |-> <<part>>]>>
                \o (IF ResponsesOf(flattened, part.id) # {}
                    THEN <<[role |-> "user",
                            parts |-> <<flattened[MaxOf(ResponsesOf(flattened,
                                                  part.id))].parts[1]>>]>>
                    ELSE <<>>)
                \o Walk(flattened, i + 1)
           ELSE <<msg>> \o Walk(flattened, i + 1)

reorganize_tool_messages_flatten_only(contents) == Flatten(contents)
reorganize_tool_messages(contents) == Walk(Flatten(contents), 1)

\* map_claude_model_to_gemini.  A model name is a string; strip() and the
\* pattern ^(claude-(opus|sonnet|haiku)-4-5)-\d{8}$ are computed on the names
\* built from the names of the tables, blanks and the eight-digit suffixes
\* below (any other name has no blank around it and no such suffix)
map_claude_model_to_gemini(claude_model) ==
  LET series == {"claude-opus-4-5", "claude-sonnet-4-5", "claude-haiku-4-5"}
      supported_models ==
        {"gemini-2.5-flash", "gemini-2.5-flash-thinking", "gemini-2.5-pro",
         "gemini-3-pro-low", "gemini-3-pro-high", "gemini-3-pro-image",
         "gemini-2.5-flash-lite", "gemini-2.5-flash-image",
         "claude-sonnet-4-5", "claude-sonnet-4-5-thinking",
         "claude-opus-4-5-thinking", "gpt-oss-120b-medium"}
      model_mapping ==
        ("claude-sonnet-4.5" :> "claude-sonnet-4-5")
          @@ ("claude-3-5-sonnet-20241022" :> "claude-sonnet-4-5")
          @@ ("claude-3-5-sonnet-20240620" :> "claude-sonnet-4-5")
          @@ ("claude-opus-4" :> "gemini-3-pro-high")
          @@ ("claude-haiku-4" :> "claude-haiku-4.5")
          @@ ("claude-3-haiku-20240307" :> "gemini-2.5-flash")
      digits8 == {"20251101", "20251001", "20241022"}
      dated == { [name |-> base \o "-" \o d, group1 |-> base] :
                 base \in series, d \in digits8 }
      bare == {""} \cup series \cup supported_models \cup DOMAIN model_mapping
                \cup { m.name : m \in dated }
      padded == { [name |-> pad[1] \o n \o pad[2], stripped |-> n] :
                  n \in bare, pad \in {<<" ", "">>, <<"", " ">>, <<" ", " ">>} }
      stripped == IF \E p \in padded : p.name = claude_model
                  THEN (CHOOSE p \in padded : p.name = claude_model).stripped
                  ELSE claude_model
      normalized == IF \E m \in dated : m.name = stripped
                    THEN (CHOOSE m \in dated : m.name = stripped).group1
                    ELSE stripped
  IN  IF stripped = "" THEN "claude-sonnet-4-5"
      ELSE IF normalized = "claude-opus-4-5" THEN "claude-opus-4-5-thinking"
      ELSE IF normalized = "claude-sonnet-4-5" THEN "claude-sonnet-4-5"
      ELSE IF normalized = "claude-haiku-4-5" THEN "gemini-2.5-flash"
      ELSE IF normalized \in supported_models THEN normalized
      ELSE IF normalized \in DOMAIN model_mapping THEN model_mapping[normalized]
      ELSE "claude-sonnet-4-5"

\* convert_anthropic_request_to_antigravity_components; system_instruction
\* and tools do not depend on the fields of the requests modelled here
convert_anthropic_request_to_antigravity_components(payload) ==
  LET gc == build_generation_config(payload)
  IN  [model |-> map_claude_model_to_gemini(payload.model),
       contents |-> reorganize_tool_messages(
                      convert_messages_to_contents(payload.messages,
                                                   gc.include)),
       generation_config |-> gc.config]

\* stream_response lines 277-291: the thinking mode given to the translator
\* (the value these lines compute for a request)
DetermineThinkingMode(req) ==
  LET thinking == req.thinking
      by_field == IF thinking.k = "absent" THEN TRUE
                  ELSE IF thinking.k = "dict" THEN thinking.type # "disabled"
                  ELSE IF thinking.k = "bool" /\ ~thinking.b THEN FALSE
                  ELSE TRUE
      nothinking == req.model = "claude-sonnet-4-5-nothinking"
  IN  [client_thinking_enabled |-> IF nothinking THEN FALSE ELSE by_field,
       thinking_to_text |-> nothinking]

NoComponents ==
  [model |-> "", contents |-> <<>>,
   generation_config |-> [maxOutputTokens |-> Absent,
                          thinkingConfig |-> NoThinkingConfig]]

\* the call of estimate_input_tokens at lines 271-275 names the keywords
\* messages, system and tools; token_estimator.py line 14 gives the function
\* the parameter payload.  A call by keywords raises TypeError when a
\* keyword names no parameter or a parameter without default gets no
\* argument
CallRaisesTypeError ==
  LET keywords == {"messages", "system", "tools"}
      estimate_input_tokens_params == {"payload"}
  IN  \/ keywords \ estimate_input_tokens_params # {}
      \/ estimate_input_tokens_params \ keywords # {}

\* the "error" events stream_response yields, by error type
ProviderErrorEvent(type) == [type |-> "error", error |-> type]

\* lines 253-259: a single error event, then return
NotConfigured ==
  /\ rpc = "start" /\ ~is_configured
  /\ stream_reply' = <<ProviderErrorEvent("authentication_error")>>
  /\ rpc' = "error"
  /\ UNCHANGED <<request, is_configured, components,
                 should_include_thinking>>
  /\ UNCHANGED <<streamVars, handler, router, router_hist, match_call, call,
               _providers, registry_calls, monitoring, routing>>

\* line 265: convert the request
ConvertRequest ==
  /\ rpc = "start" /\ is_configured
  /\ components' = convert_anthropic_request_to_antigravity_components(request)
  /\ should_include_thinking' = build_generation_config(request).include
  /\ rpc' = "converted"
  /\ UNCHANGED <<request, is_configured, stream_reply>>
  /\ UNCHANGED <<streamVars, handler, router, router_hist, match_call, call,
               _providers, registry_calls, monitoring, routing>>

\* lines 271-275 and 348-354: the call of estimate_input_tokens raises
\* TypeError inside the try block; "except Exception" yields one error event
\* and the generator ends.  Lines 277-339 (thinking mode, upstream request,
\* streaming translator) are not reached.
EstimateInputTokens ==
  /\ rpc = "converted"
  /\ IF CallRaisesTypeError
     THEN /\ stream_reply' = <<ProviderErrorEvent("internal_error")>>
          /\ rpc' = "failed"
     ELSE /\ stream_reply' = stream_reply
          /\ rpc' = "estimated"
  /\ UNCHANGED <<request, is_configured, components,
                 should_include_thinking>>
  /\ UNCHANGED <<streamVars, handler, router, router_hist, match_call, call,
               _providers, registry_calls, monitoring, routing>>

(***************************************************************************)
(* Properties of the request translator and of the provider.               *)
(***************************************************************************)
Converted == rpc \in {"converted", "failed"}

\* the thinking value is the boolean true or a dict of type "enabled"
ThinkingRequested(thinking) ==
  \/ thinking.k = "bool" /\ thinking.b
  \/ thinking.k = "dict" /\ thinking.type = "enabled"

EmitsThinkingConfig ==
  /\ components.generation_config.thinkingConfig.present
  /\ components.generation_config.thinkingConfig.includeThoughts

\* C7: the client-thinking flag that stream_response derives for the
\* streaming translator (lines 277-291) equals the include_thinking decision
\* of the request translator for the same request.
C7_ThinkingFlagAgrees ==
  Converted =>
    DetermineThinkingMode(request).client_thinking_enabled
      = should_include_thinking

BeginsWithThinking(msg) ==
  /\ msg.ckind = "list" /\ msg.blocks # <<>>
  /\ msg.blocks[1].isdict
  /\ msg.blocks[1].type \in {"thinking", "redacted_thinking"}

BeginsWithSignedThinking(msg) ==
  BeginsWithThinking(msg) /\ msg.blocks[1].signature # ""

ThoughtBeforeText(parts) ==
  \E j \in 1..Len(parts) :
    /\ parts[j].kind = "thought" /\ parts[j].thoughtSignature # ""
    /\ \A k \in 1..(j - 1) : parts[k].kind \notin {"text", "functionCall"}

\* C8: in a thinking-enabled call the assistant entry examined is forwarded
\* with a signed thought part before any text or functionCall part; when the
\* entry does not begin with a signed thinking or redacted_thinking block the
\* call is downgraded to non-thinking.
C8_SignedThinkingPrecedes ==
  Converted =>
    LET i == ExaminedIndex(request.messages, Len(request.messages))
    IN  i > 0 =>
          /\ should_include_thinking =>
               ThoughtBeforeText(MessageParts(request.messages[i], TRUE))
          /\ ~BeginsWithSignedThinking(request.messages[i]) =>
               ~should_include_thinking /\ ~EmitsThinkingConfig

\* the content is a string or a non-empty list
HasContent(msg) == msg.ckind = "str" \/ msg.blocks # <<>>

LastAssistant(messages) ==
  LET A == {i \in 1..Len(messages) : messages[i].role = "assistant"}
  IN  IF A = {} THEN 0 ELSE MaxOf(A)

\* the budget rule alone withdraws thinking (budget >= max_tokens <= 1)
BudgetDisables(req) ==
  LET budget == get_thinking_config(req.thinking).thinkingBudget
  IN  /\ req.max_tokens.k = "int" /\ budget.k = "int"
      /\ budget.v >= req.max_tokens.v
      /\ req.max_tokens.v - 1 <= 0

\* C9: when thinking is requested the decision rests on the most recent
\* assistant message: thinking is withdrawn, and no thinkingConfig emitted,
\* when its content does not begin with a thinking or redacted_thinking
\* block; without any assistant message thinking stays enabled.
C9_MostRecentAssistantDecides ==
  (Converted /\ ThinkingRequested(request.thinking)) =>
    LET a == LastAssistant(request.messages)
    IN  /\ (a > 0 /\ HasContent(request.messages[a])
               /\ ~BeginsWithThinking(request.messages[a])) =>
             /\ ~should_include_thinking
             /\ ~components.generation_config.thinkingConfig.present
        /\ (a = 0 /\ ~BudgetDisables(request)) => should_include_thinking

\* C10: include_thinking is true only for the boolean true or a dict of type
\* "enabled"; an absent or null thinking field gives include_thinking false
\* and no thinkingConfig.
C10_ThinkingActivation ==
  Converted =>
    /\ should_include_thinking => ThinkingRequested(request.thinking)
    /\ request.thinking.k \in {"absent", "null"} =>
         /\ ~should_include_thinking
         /\ ~components.generation_config.thinkingConfig.present

\* C11: an emitted thinkingConfig with includeThoughts = true carries a
\* strictly positive thinkingBudget that, when max_tokens is an integer, is
\* strictly smaller than max_tokens; a budget that would be <= 0 disables
\* thinking instead (include_thinking false, no thinkingConfig).
C11_BudgetWithinMaxTokens ==
  Converted =>
    LET tc == components.generation_config.thinkingConfig
    IN  (tc.present /\ tc.includeThoughts) =>
          /\ should_include_thinking
          /\ tc.thinkingBudget.k = "int"
          /\ tc.thinkingBudget.v > 0
          /\ request.max_tokens.k = "int" =>
               tc.thinkingBudget.v < request.max_tokens.v

\* C17: once the consumer of a translated stream has closed it, at a yield
\* or while the translator awaits upstream, no further event is emitted, no
\* further upstream line is read and the upstream HTTP response is released.
C17_ClosedStopsStream ==
  [][/\ consumer_closed => (out' = out /\ nread' = nread)
     /\ consumer_closed' => ~response_open']_vars

\* closed in the middle of a content block, after a delta was delivered
C17_Witness ==
  /\ consumer_closed
  /\ out # <<>>
  /\ out[Len(out)].type = "content_block_delta"
  /\ ~response_open

(***************************************************************************)
(* Part III.  The endpoint POST /v1/messages (server/routes/anthropic.py,  *)
(* create_message) with the provider registry and the two providers the    *)
(* application registers, specification SpecRoute.                         *)
(***************************************************************************)
\* FailoverService: max_retries as __init__ sets it, and the statuses on
\* which should_retry answers yes
max_retries == 3
RETRYABLE_STATUS_CODES == {408, 429, 500, 502, 503, 504}

\* a registered provider: AnthropicProvider (Messages format) under the name
\* "anthropic", AntigravityProvider (foreign format) under "antigravity"
Provider(name, configured) ==
  [name |-> name,
   api_format |-> IF name = "anthropic" THEN "anthropic" ELSE "gemini",
   is_configured |-> configured]

ProviderNames == {"anthropic", "antigravity"}

\* what routing.select_provider gives is a provider name, registered or
\* not; this value stands for an exception it raised (lines 71-77)
RoutingError == "<exception>"

\* what the upstream does when it is asked: it answers with a status (and,
\* on 200, with the byte chunks of an event stream; read_timeout: the read
\* times out after the first chunk), or the request times out
Upstream(kind, status, chunks, read_timeout) ==
  [kind |-> kind, status |-> status, chunks |-> chunks,
   read_timeout |-> read_timeout]

\* the JSON document the upstream sends with status s
UpstreamBody(s) == [kind |-> "upstream", status |-> s]
\* an error document made by create_message; kind "none": no document
ErrorJson(type) == [kind |-> type, status |-> 0]
\* a chunk of upstream bytes passed on as it is
UpstreamBytes(data) == [type |-> "bytes", data |-> data]

\* ProviderRegistry.get: the position of the provider, 0 for None
registry_get(registry, name) ==
  IF \E i \in 1..Len(registry) : registry[i].name = name
  THEN CHOOSE i \in 1..Len(registry) : registry[i].name = name
  ELSE 0

\* ProviderRegistry.list_configured_providers: the positions of the
\* configured providers, in registration order
list_configured_providers_all(registry) == [i \in 1..Len(registry) |-> i]
list_configured_providers(registry) ==
  SelectSeq([i \in 1..Len(registry) |-> i],
            LAMBDA i : registry[i].is_configured)

\* send_request of both providers (anthropic.py 104-192, antigravity.py
\* 141-233): the ProviderResponse; error "" is None
send_request(provider, upstream) ==
  IF ~provider.is_configured
  THEN [status_code |-> 401, error |-> "not configured",
        body |-> ErrorJson("none")]
  ELSE IF upstream.kind = "timeout"
  THEN [status_code |-> 408, error |-> "Request timeout",
        body |-> ErrorJson("none")]
  ELSE [status_code |-> upstream.status, error |-> "",
        body |-> UpstreamBody(upstream.status)]

\* the chunks that arrive before the read of the stream fails or ends
Received(upstream) ==
  IF upstream.read_timeout /\ Len(upstream.chunks) > 1 THEN 1
  ELSE Len(upstream.chunks)

\* a unary reply of create_message
Reply(status, body) ==
  [handler EXCEPT !.hpc = "replied", !.http_status = status,
                  !.media_type = "application/json", !.reply_body = <<body>>]

\* lines 65-96: routing, registry lookup, fallback to the first configured
\* provider, 503 when there is none
SelectProvider ==
  /\ handler.hpc = "start"
  /\ IF handler.routed = RoutingError
     THEN handler' = Reply(500, ErrorJson("routing_error"))
     ELSE LET named == registry_get(handler.registry, handler.routed)
              providers == list_configured_providers(handler.registry)
          IN  IF named # 0
              THEN handler' = [handler EXCEPT !.hpc = "selected",
                                              !.provider = named]
              ELSE IF providers = <<>>
              THEN handler' = Reply(503, ErrorJson("configuration_error"))
              ELSE handler' = [handler EXCEPT !.hpc = "selected",
                                              !.provider = providers[1]]
  /\ UNCHANGED notHandlerVars

\* lines 99-109: a StreamingResponse over provider.stream_response(body);
\* its status is 200
StartStreaming ==
  /\ handler.hpc = "selected" /\ handler.is_streaming
  /\ handler' =
       [handler EXCEPT !.hpc = "streaming", !.http_status = 200,
                       !.media_type = "text/event-stream",
                       !.provider_calls =
                          Append(@, handler.registry[handler.provider].name)]
  /\ UNCHANGED notHandlerVars

\* AntigravityProvider.stream_response, lines 253-354: the error event of
\* an unconfigured provider, or the conversion of the request and the call
\* of estimate_input_tokens, whose TypeError ends the stream with one error
\* event before the upstream is asked
AntigravityStream ==
  /\ handler.hpc = "streaming"
  /\ handler.registry[handler.provider].api_format = "gemini"
  /\ IF ~handler.registry[handler.provider].is_configured
     THEN handler' =
            [handler EXCEPT !.hpc = "replied",
               !.reply_body = <<ProviderErrorEvent("authentication_error")>>]
     ELSE IF CallRaisesTypeError
     THEN handler' =
            [handler EXCEPT !.hpc = "replied",
               !.reply_body = <<ProviderErrorEvent("internal_error")>>]
     ELSE handler' = [handler EXCEPT !.hpc = "translate"]
  /\ UNCHANGED notHandlerVars

\* AnthropicProvider.stream_response, lines 210-249 and 255-260: the error
\* event of an unconfigured provider, of a timeout or of a status other
\* than 200; on 200 the relay starts
AnthropicStreamOpen ==
  /\ handler.hpc = "streaming"
  /\ handler.registry[handler.provider].api_format = "anthropic"
  /\ IF ~handler.registry[handler.provider].is_configured
     THEN handler' =
            [handler EXCEPT !.hpc = "replied",
               !.reply_body = <<ProviderErrorEvent("authentication_error")>>]
     ELSE IF handler.upstream.kind = "timeout"
     THEN handler' =
            [handler EXCEPT !.hpc = "replied", !.upstream_calls = @ + 1,
               !.reply_body = <<ProviderErrorEvent("timeout_error")>>]
     ELSE IF handler.upstream.status # 200
     THEN handler' =
            [handler EXCEPT !.hpc = "replied", !.upstream_calls = @ + 1,
               !.reply_body = <<ProviderErrorEvent("api_error")>>]
     ELSE handler' = [handler EXCEPT !.hpc = "relay",
                                     !.upstream_calls = @ + 1]
  /\ UNCHANGED notHandlerVars

\* lines 252-253: one chunk of upstream bytes is yielded as it is
RelayChunk ==
  /\ handler.hpc = "relay"
  /\ Len(handler.reply_body) < Received(handler.upstream)
  /\ handler' =
       [handler EXCEPT !.reply_body =
          Append(@, UpstreamBytes(
                      handler.upstream.chunks[Len(handler.reply_body) + 1]))]
  /\ UNCHANGED notHandlerVars

\* lines 252-260: the upstream stream ends, or the read times out and one
\* error event is yielded
RelayEnd ==
  /\ handler.hpc = "relay"
  /\ Len(handler.reply_body) = Received(handler.upstream)
  /\ handler' =
       [handler EXCEPT !.hpc = "replied",
          !.reply_body =
             IF Received(handler.upstream) < Len(handler.upstream.chunks)
             THEN Append(@, ProviderErrorEvent("timeout_error"))
             ELSE @]
  /\ UNCHANGED notHandlerVars

\* lines 111-129: one call of send_request; an error result is answered
\* with its status code, any other result with the body and status 200
SendUnary ==
  /\ handler.hpc = "selected" /\ ~handler.is_streaming
  /\ LET provider == handler.registry[handler.provider]
         result == send_request(provider, handler.upstream)
         sent == [handler EXCEPT
                    !.provider_calls = Append(@, provider.name),
                    !.upstream_calls =
                       IF provider.is_configured THEN @ + 1 ELSE @]
     IN  handler' =
           IF result.error # ""
           THEN [sent EXCEPT !.hpc = "replied",
                             !.http_status = IF result.status_code # 0
                                             THEN result.status_code
                                             ELSE 500,
                             !.media_type = "application/json",
                             !.reply_body = <<ErrorJson("provider_error")>>]
           ELSE [sent EXCEPT !.hpc = "replied", !.http_status = 200,
                             !.media_type = "application/json",
                             !.reply_body = <<result.body>>]
  /\ UNCHANGED notHandlerVars

(***************************************************************************)
(* Properties of the endpoint.                                             *)
(***************************************************************************)
Replied == handler.hpc = "replied"
\* a provider was selected and it is configured
SentToConfigured ==
  /\ handler.provider # 0
  /\ handler.registry[handler.provider].is_configured
SelectedFormat == handler.registry[handler.provider].api_format

\* C12: a streaming request routed to a configured foreign-format provider
\* whose upstream answers 200 is answered with the output of the streaming
\* translator, which begins with message_start; with a Messages-format
\* provider the upstream bytes are delivered verbatim and in order.
C12_StreamingRelay ==
  (/\ Replied /\ handler.is_streaming /\ SentToConfigured
   /\ handler.upstream.kind = "response" /\ handler.upstream.status = 200) =>
    IF SelectedFormat = "gemini"
    THEN /\ handler.upstream_calls = 1
         /\ handler.reply_body # <<>>
         /\ handler.reply_body[1].type = "message_start"
    ELSE LET n == Received(handler.upstream)
         IN  /\ Len(handler.reply_body) >= n
             /\ \A i \in 1..n :
                  handler.reply_body[i]
                    = UpstreamBytes(handler.upstream.chunks[i])

\* the status one attempt on the upstream ends with
AttemptStatus(upstream) ==
  IF upstream.kind = "timeout" THEN 408 ELSE upstream.status

\* C13: a non-streaming request whose provider answers with a retryable
\* status is retried on that provider max_retries times before the reply is
\* made, and the reply is then the first 2xx response or the last error.
C13_RetryThenFailover ==
  (/\ Replied /\ ~handler.is_streaming /\ SentToConfigured
   /\ AttemptStatus(handler.upstream) \in RETRYABLE_STATUS_CODES) =>
    /\ handler.upstream_calls >= 1 + max_retries
    /\ handler.http_status = AttemptStatus(handler.upstream)

\* C14: a streaming request that fails before any message_start (provider
\* not configured, upstream status other than 200, timeout before the first
\* event) is answered with one JSON error body and an HTTP error status.
C14_EarlyErrorIsUnary ==
  (/\ Replied /\ handler.is_streaming /\ handler.provider # 0
   /\ handler.reply_body # <<>>
   /\ handler.reply_body[1].type = "error") =>
    /\ handler.media_type = "application/json"
    /\ handler.http_status >= 400

\* C15: a non-streaming request whose upstream answers with a 4xx status
\* other than 408 and 429 is neither retried nor failed over, and the client
\* receives that status code with the upstream error body.
C15_ClientErrorVerbatim ==
  (/\ Replied /\ ~handler.is_streaming /\ SentToConfigured
   /\ handler.upstream.kind = "response"
   /\ handler.upstream.status \in (400..499) \ {408, 429}) =>
    /\ handler.upstream_calls = 1
    /\ Len(handler.provider_calls) = 1
    /\ handler.http_status = handler.upstream.status
    /\ handler.reply_body = <<UpstreamBody(handler.upstream.status)>>

\* C16: the request goes to the provider routing names iff that name is
\* registered; otherwise to the first configured provider in registration
\* order; and when, the name being unknown, no provider is configured, the
\* reply is 503 and no provider is called.
C16_ProviderSelection ==
  (handler.hpc \notin {"idle", "start"} /\ handler.routed # RoutingError) =>
    LET registered == \E i \in 1..Len(handler.registry) :
                         handler.registry[i].name = handler.routed
        configured == {i \in 1..Len(handler.registry) :
                         handler.registry[i].is_configured}
        p == handler.provider
    IN  /\ registered <=>
             (p # 0 /\ handler.registry[p].name = handler.routed)
        /\ (~registered /\ configured # {}) =>
             (p \in configured /\ \A j \in configured : p <= j)
        /\ (~registered /\ configured = {}) =>
             /\ p = 0
             /\ handler.http_status = 503
             /\ handler.provider_calls = <<>>
             /\ handler.upstream_calls = 0
        /\ \A i \in 1..Len(handler.provider_calls) :
             p # 0 /\ handler.provider_calls[i] = handler.registry[p].name

\* the name is unknown, the first registered provider is not configured and
\* the request was sent to the second
C16_Witness ==
  /\ Replied
  /\ registry_get(handler.registry, handler.routed) = 0
  /\ handler.provider = 2
  /\ handler.provider_calls = <<handler.registry[2].name>>
  /\ handler.upstream_calls = 1

(***************************************************************************)
(* Part IV.  The routing rules (router/rules.py, router/config.py):        *)
(* RoutingRule.matches, specification SpecMatch, and the Router object     *)
(* with add_rule, remove_rule, the loading of a configuration,             *)
(* select_provider and get_matching_rule, specification SpecRouter.        *)
(***************************************************************************)
\* number of rules a router may hold
MaxRules == 3

\* Python's None for an optional string, an optional bool
NoneStr == "<None>"
NoneBool == [k |-> "none", b |-> FALSE]
Bool(b) == [k |-> "bool", b |-> b]

\* a RoutingRule; seq is not a field of the dataclass: it is the rank of the
\* rule among the rules of its router in the order of their insertion
RoutingRule(name, provider, priority, agent_type, model_pattern, thinking_enabled, min_context_tokens, max_context_tokens) ==
  [name |-> name, provider |-> provider, priority |-> priority,
   agent_type |-> agent_type, model_pattern |-> model_pattern,
   thinking_enabled |-> thinking_enabled,
   min_context_tokens |-> min_context_tokens,
   max_context_tokens |-> max_context_tokens, seq |-> 0]

\* a model_pattern is [kind, lit]: kind "literal" is the regular expression
\* lit (a text without metacharacters), "contains" is ".*lit.*"; kind
\* "none" is None
NonePattern == [kind |-> "none", lit |-> <<>>]

\* re.IGNORECASE on the letters used here
Lower(c) ==
  IF c = "O" THEN "o" ELSE IF c = "C" THEN "c" ELSE IF c = "L" THEN "l"
  ELSE c

\* lit occurs in text at position i
OccursAt(lit, text, i) ==
  /\ i + Len(lit) - 1 <= Len(text)
  /\ \A j \in 1..Len(lit) : Lower(lit[j]) = Lower(text[i + j - 1])

\* re.match(pattern, model, re.IGNORECASE): a match at the start of model
re_match(pattern, model) ==
  IF pattern.kind = "literal" THEN OccursAt(pattern.lit, model, 1)
  ELSE \E i \in 1..(Len(model) + 1) : OccursAt(pattern.lit, model, i)

\* RoutingRule.matches, lines 64-94
matches(rule, req, agent_type, context_tokens) ==
  IF /\ rule.agent_type \notin {NoneStr, ""}
     /\ rule.agent_type # (IF agent_type \in {NoneStr, ""} THEN "default"
                           ELSE agent_type)
  THEN FALSE
  ELSE IF /\ rule.model_pattern.kind # "none"
          /\ rule.model_pattern.lit # <<>>
          /\ ~re_match(rule.model_pattern, req.model)
  THEN FALSE
  ELSE IF /\ rule.thinking_enabled.k # "none"
          \* lines 76-82, is_thinking: a missing thinking value is {}
          /\ rule.thinking_enabled.b #
               (IF req.thinking.k \in {"absent", "dict"}
                THEN req.thinking.type = "enabled"
                ELSE req.thinking.k = "bool" /\ req.thinking.b)
  THEN FALSE
  ELSE IF /\ rule.min_context_tokens.k = "int"
          /\ context_tokens < rule.min_context_tokens.v
  THEN FALSE
  ELSE IF /\ rule.max_context_tokens.k = "int"
          /\ context_tokens > rule.max_context_tokens.v
  THEN FALSE
  ELSE TRUE

\* the call rule.matches(request, agent_type, context_tokens)
Matches ==
  /\ match_call.result = NoneBool
  /\ match_call' =
       [match_call EXCEPT !.result =
          Bool(matches(match_call.rule, match_call.request,
                       match_call.agent_type, match_call.context_tokens))]
  /\ UNCHANGED <<streamVars, reqVars, handler, router, router_hist, call,
               _providers, registry_calls, monitoring, routing>>

\* list.sort(key=lambda r: r.priority, reverse=True) is stable: a rule goes
\* behind the rules of a higher or of the same priority that precede it
RECURSIVE InsertByPriority_before_ties(_, _)
InsertByPriority_before_ties(sorted, rule) ==
  IF sorted = <<>> THEN <<rule>>
  ELSE IF Head(sorted).priority > rule.priority
  THEN <<Head(sorted)>> \o InsertByPriority_before_ties(Tail(sorted), rule)
  ELSE <<rule>> \o sorted
RECURSIVE InsertByPriority(_, _)
InsertByPriority(sorted, rule) ==
  IF sorted = <<>> THEN <<rule>>
  ELSE IF Head(sorted).priority >= rule.priority
  THEN <<Head(sorted)>> \o InsertByPriority(Tail(sorted), rule)
  ELSE <<rule>> \o sorted

RECURSIVE SortByPriority(_)
SortByPriority(rules) ==
  IF rules = <<>> THEN <<>>
  ELSE InsertByPriority(
         SortByPriority(SubSeq(rules, 1, Len(rules) - 1)),
         rules[Len(rules)])

\* Router.add_rule, lines 128-132
add_rule(rules, rule) ==
  SortByPriority(Append(rules, [rule EXCEPT !.seq = Len(rules) + 1]))

\* the position of the first rule of that name, 0 when there is none
RECURSIVE FirstNamed(_, _, _)
FirstNamed(rules, name, i) ==
  IF i > Len(rules) THEN 0
  ELSE IF rules[i].name = name THEN i
  ELSE FirstNamed(rules, name, i + 1)

\* Router.remove_rule, lines 134-140: (rules, result)
remove_rule(rules, name) ==
  LET i == FirstNamed(rules, name, 1)
      \* "del self.rules[i]"; the ranks of the later insertions move up
      Deleted ==
        [j \in 1..(Len(rules) - 1) |->
           LET r == IF j < i THEN rules[j] ELSE rules[j + 1]
           IN  IF r.seq > rules[i].seq THEN [r EXCEPT !.seq = @ - 1] ELSE r]
  IN  IF i = 0 THEN [rules |-> rules, result |-> FALSE]
      ELSE [rules |-> Deleted, result |-> TRUE]

\* the position of the first rule that matches, 0 when there is none
RECURSIVE FirstMatch(_, _, _, _, _)
FirstMatch(rules, req, agent_type, context_tokens, i) ==
  IF i > Len(rules) THEN 0
  ELSE IF matches(rules[i], req, agent_type, context_tokens) THEN i
  ELSE FirstMatch(rules, req, agent_type, context_tokens, i + 1)

\* Router.select_provider, lines 181-187
select_provider(r, req, agent_type, context_tokens) ==
  LET i == FirstMatch(r.rules, req, agent_type, context_tokens, 1)
  IN  IF i = 0 THEN r.default_provider ELSE r.rules[i].provider

\* Router.get_matching_rule, lines 159-162
get_matching_rule(r, req, agent_type, context_tokens) ==
  LET i == FirstMatch(r.rules, req, agent_type, context_tokens, 1)
  IN  IF i = 0 THEN NoneStr ELSE r.rules[i].name

\* RoutingConfig.to_router, lines 80-85
RECURSIVE AddAll(_, _)
AddAll(rules, rule_configs) ==
  IF rule_configs = <<>> THEN rules
  ELSE AddAll(add_rule(rules, Head(rule_configs)), Tail(rule_configs))

\* validate_routing_config(...).to_router(): from_dict sorts the rules of
\* the configuration (line 120), to_router adds them to a new router
to_router(rule_configs) == AddAll(<<>>, SortByPriority(rule_configs))

\* the rules given to add_rule and found in configurations; they differ by
\* name, provider, priority and agent_type
RouterRules ==
  { RoutingRule(r[1], r[2], r[3], r[4], NonePattern, NoneBool, Null, Null) :
      r \in { <<"a", "p", 5, NoneStr>>, <<"a", "q", 5, "think">>,
              <<"b", "q", 5, NoneStr>>, <<"b", "p", 0, "think">>,
              <<"a", "q", 0, NoneStr>>, <<"b", "p", 5, "think">> } }

\* the request of the calls of select_provider; the rules above look at the
\* agent type only
AnyRequest == [model |-> <<>>, thinking |-> ThinkingAbsent]

NoSelection ==
  [valid |-> FALSE, agent_type |-> NoneStr, provider |-> "", rule |-> NoneStr]

\* router.add_rule(rule)
AddRule ==
  /\ Len(router.rules) < MaxRules
  /\ \E rule \in RouterRules :
       /\ router' = [router EXCEPT !.rules = add_rule(@, rule)]
       /\ router_hist' =
            [last |-> [op |-> "add_rule", name |-> rule.name,
                       existed |-> FirstNamed(router.rules, rule.name, 1) # 0,
                       result |-> TRUE],
             selected |-> NoSelection]
  /\ UNCHANGED <<streamVars, reqVars, handler, match_call, call,
               _providers, registry_calls, monitoring, routing>>

\* router.remove_rule(name)
RemoveRule ==
  /\ \E name \in {"a", "b", "c"} :
       LET r == remove_rule(router.rules, name)
       IN  /\ router' = [router EXCEPT !.rules = r.rules]
           /\ router_hist' =
                [last |-> [op |-> "remove_rule", name |-> name,
                           existed |-> \E i \in 1..Len(router.rules) :
                                         router.rules[i].name = name,
                           result |-> r.result],
                 selected |-> NoSelection]
  /\ UNCHANGED <<streamVars, reqVars, handler, match_call, call,
               _providers, registry_calls, monitoring, routing>>

\* a configuration is loaded and becomes the router; a configuration with a
\* repeated name is refused (ConfigValidationError)
LoadConfig ==
  /\ \E rule_configs \in UNION {[1..n -> RouterRules] : n \in 0..2} :
       IF \E i, j \in 1..Len(rule_configs) :
            i < j /\ rule_configs[i].name = rule_configs[j].name
       THEN /\ router' = router
            /\ router_hist' =
                 [last |-> [op |-> "load", name |-> "", existed |-> FALSE,
                            result |-> FALSE],
                  selected |-> NoSelection]
       ELSE /\ router' = [router EXCEPT !.rules = to_router(rule_configs)]
            /\ router_hist' =
                 [last |-> [op |-> "load", name |-> "", existed |-> FALSE,
                            result |-> TRUE],
                  selected |-> NoSelection]
  /\ UNCHANGED <<streamVars, reqVars, handler, match_call, call,
               _providers, registry_calls, monitoring, routing>>

\* router.select_provider and router.get_matching_rule for one request
Select ==
  /\ \E agent \in {NoneStr, "think", "default"} :
       router_hist' =
         [router_hist EXCEPT !.selected =
            [valid |-> TRUE, agent_type |-> agent,
             provider |-> select_provider(router, AnyRequest, agent, 0),
             rule |-> get_matching_rule(router, AnyRequest, agent, 0)]]
  /\ UNCHANGED router
  /\ UNCHANGED <<streamVars, reqVars, handler, match_call, call,
               _providers, registry_calls, monitoring, routing>>

(***************************************************************************)
(* Properties of the routing rules.                                        *)
(***************************************************************************)
\* rule r comes before rule q in the order of the claim: higher priority
\* first, the earlier insertion first among equal priorities
Precedes(r, q) ==
  \/ r.priority > q.priority
  \/ r.priority = q.priority /\ r.seq < q.seq

\* C18: the rule list is ordered by priority descending, equal priorities in
\* insertion order; select_provider gives the provider of the matching rule
\* that precedes every other matching rule, the default provider when no
\* rule matches, and get_matching_rule names that same rule (None when no
\* rule matches).
C18_FirstMatchInPriorityOrder ==
  /\ \A i, j \in 1..Len(router.rules) :
       i < j => Precedes(router.rules[i], router.rules[j])
  /\ router_hist.selected.valid =>
       LET sel == router_hist.selected
           M == {i \in 1..Len(router.rules) :
                   matches(router.rules[i], AnyRequest, sel.agent_type, 0)}
       IN  IF M = {}
           THEN sel.provider = router.default_provider /\ sel.rule = NoneStr
           ELSE \E i \in M :
                  /\ \A j \in M \ {i} :
                       Precedes(router.rules[i], router.rules[j])
                  /\ sel.provider = router.rules[i].provider
                  /\ sel.rule = router.rules[i].name

\* two matching rules of the same priority, the later insertion of a higher
\* priority rule in between, and the selection of the earlier of the two
C18_Witness ==
  /\ Len(router.rules) = 3
  /\ router.rules[2].priority = router.rules[3].priority
  /\ router.rules[1].seq = 3
  /\ router_hist.selected.valid
  /\ router_hist.selected.rule = router.rules[2].name
  /\ router_hist.selected.provider = router.rules[2].provider
  /\ router.rules[2].provider # router.rules[3].provider
  /\ matches(router.rules[3], AnyRequest, router_hist.selected.agent_type, 0)

\* the resolution of the request translator: build_generation_config takes
\* an absent or null thinking value as no thinking and asks
\* get_thinking_config for any other value
ResolvesToThinking(thinking) ==
  /\ thinking.k \notin {"absent", "null"}
  /\ get_thinking_config(thinking).includeThoughts

\* C19: matches is the conjunction of the populated clauses: the agent type
\* equals the given one, or "default" when none is given; the model pattern
\* matches request.model as a case-insensitive regular expression; the
\* thinking clause equals the thinking resolution of the request
\* translator; the context bounds are inclusive.
C19_MatchesIsConjunction ==
  match_call.result # NoneBool =>
    LET rule == match_call.rule
        agent == IF match_call.agent_type = NoneStr THEN "default"
                 ELSE match_call.agent_type
        ctx == match_call.context_tokens
    IN  match_call.result.b <=>
          /\ rule.agent_type # NoneStr => rule.agent_type = agent
          /\ rule.model_pattern.kind # "none" =>
               re_match(rule.model_pattern, match_call.request.model)
          /\ rule.thinking_enabled.k # "none" =>
               (rule.thinking_enabled.b
                  <=> ResolvesToThinking(match_call.request.thinking))
          /\ rule.min_context_tokens.k = "int" =>
               ctx >= rule.min_context_tokens.v
          /\ rule.max_context_tokens.k = "int" =>
               ctx <= rule.max_context_tokens.v

\* C20: no two rules of a router have the same name; remove_rule(name)
\* returns true iff a rule of that name existed, and no rule of that name
\* remains after it.
C20_UniqueRuleNames ==
  /\ \A i, j \in 1..Len(router.rules) :
       i # j => router.rules[i].name # router.rules[j].name
  /\ router_hist.last.op = "remove_rule" =>
       /\ router_hist.last.result <=> router_hist.last.existed
       /\ \A i \in 1..Len(router.rules) :
            router.rules[i].name # router_hist.last.name

(***************************************************************************)
(* Part V.  The functions of the failover service (router/failover.py).   *)
(* A FailoverService is the record of its settings; a ProviderHealth is    *)
(* the record of its status and latency_ms (Null: None).                   *)
(***************************************************************************)
\* the bound on the number of the attempt, on the length of the list of
\* available providers
MaxAttempt == 4
MaxAvailable == 3

\* a call and its result are recorded
Called(fn, args, result) ==
  /\ call' = [fn |-> fn, args |-> args, result |-> result]
  /\ UNCHANGED <<streamVars, reqVars, handler, router, router_hist, match_call,
               _providers, registry_calls, monitoring, routing>>

\* FailoverService.should_retry, lines 89-99
should_retry_server_errors(status_code) == status_code >= 500
should_retry(status_code) == status_code \in RETRYABLE_STATUS_CODES

\* FailoverService.should_failover, lines 101-119; "health.latency_ms and"
\* is false for None and for 0
should_failover_any_degraded(self, health) ==
  \/ health.status = "unhealthy"
  \/ health.status = "degraded"
should_failover(self, health) ==
  IF health.status = "unhealthy" THEN TRUE
  ELSE IF /\ health.status = "degraded"
          /\ health.latency_ms.k = "int" /\ health.latency_ms.v # 0
          /\ health.latency_ms.v > self.latency_threshold_ms
  THEN TRUE
  ELSE FALSE

\* FailoverService.build_failover_chain, lines 121-153; fallback is a name,
\* "" or NoneStr
build_failover_chain_fallback_last(primary, fallback, available) ==
  LET RECURSIVE Remaining(_, _)
      Remaining(chain, rest) ==
        IF rest = <<>> THEN chain
        ELSE Remaining(IF \E i \in 1..Len(chain) : chain[i] = Head(rest)
                       THEN chain ELSE Append(chain, Head(rest)),
                       Tail(rest))
  IN  Remaining(IF \E i \in 1..Len(available) : available[i] = primary
                THEN <<primary>> ELSE <<>>, available)
build_failover_chain(primary, fallback, available) ==
  LET In(name, list) == \E i \in 1..Len(list) : list[i] = name
      chain0 == IF In(primary, available) THEN <<primary>> ELSE <<>>
      chain1 == IF /\ fallback \notin {NoneStr, ""}
                   /\ In(fallback, available) /\ ~In(fallback, chain0)
                THEN Append(chain0, fallback) ELSE chain0
      RECURSIVE Remaining(_, _)
      Remaining(chain, rest) ==
        IF rest = <<>> THEN chain
        ELSE Remaining(IF In(Head(rest), chain) THEN chain
                       ELSE Append(chain, Head(rest)),
                       Tail(rest))
  IN  Remaining(chain1, available)

\* FailoverService.get_retry_delay, lines 155-167
get_retry_delay_uncapped(self, attempt) ==
  self.retry_delay_ms * 2^(attempt - 1)
get_retry_delay(self, attempt) ==
  LET delay == self.retry_delay_ms * 2^(attempt - 1)
  IN  IF delay <= self.max_retry_delay_ms THEN delay
      ELSE self.max_retry_delay_ms

(***************************************************************************)
(* Properties of the failover service.                                     *)
(***************************************************************************)
\* name occurs in list
Occurs(name, list) == \E i \in 1..Len(list) : list[i] = name

\* the position of the first occurrence of name in list
FirstAt(name, list) ==
  CHOOSE i \in 1..Len(list) :
    list[i] = name /\ \A j \in 1..(i - 1) : list[j] # name

\* C22: in the chain of build_failover_chain(primary, fallback, available)
\* each name occurs at most once, every element is in available, every name
\* of available occurs, primary is first when it is available, an available
\* fallback other than primary comes directly after primary (first when
\* primary is not available), and the remaining names keep the relative
\* order they have in available.
C22_FailoverChain ==
  call.fn = "build_failover_chain" =>
    LET primary == call.args.primary
        fallback == call.args.fallback
        available == call.args.available
        chain == call.result
        placed == fallback # NoneStr /\ Occurs(fallback, available)
                    /\ fallback # primary
        Remaining == { n \in {available[i] : i \in 1..Len(available)} :
                         n # primary /\ ~(placed /\ n = fallback) }
    IN  /\ \A i, j \in 1..Len(chain) : i # j => chain[i] # chain[j]
        /\ \A i \in 1..Len(chain) : Occurs(chain[i], available)
        /\ \A i \in 1..Len(available) : Occurs(available[i], chain)
        /\ Occurs(primary, available) => chain[1] = primary
        /\ placed =>
             chain[IF Occurs(primary, available) THEN 2 ELSE 1] = fallback
        /\ \A x, y \in Remaining :
             FirstAt(x, available) < FirstAt(y, available) =>
               FirstAt(x, chain) < FirstAt(y, chain)

\* a chain in which the fallback was moved forward and a repeated name
\* was dropped
C22_Witness ==
  /\ call.fn = "build_failover_chain"
  /\ call.args = [primary |-> "a", fallback |-> "b",
                  available |-> <<"c", "b", "a">>]
  /\ call.result = <<"a", "b", "c">>

\* C23: for an attempt n >= 1 and settings 0 <= retry_delay_ms,
\* 0 <= max_retry_delay_ms, get_retry_delay(n) is
\* min(retry_delay_ms * 2^(n-1), max_retry_delay_ms); it does not decrease
\* with n and never exceeds max_retry_delay_ms.
C23_RetryDelay ==
  call.fn = "get_retry_delay" =>
    LET self == call.args.self
        n == call.args.attempt
        doubled == self.retry_delay_ms * 2^(n - 1)
    IN  /\ call.result \in {doubled, self.max_retry_delay_ms}
        /\ call.result <= doubled
        /\ call.result <= self.max_retry_delay_ms
        /\ n > 1 => get_retry_delay(self, n - 1) <= call.result

\* the doubled delay went over the cap and the cap was returned
C23_Witness ==
  /\ call.fn = "get_retry_delay"
  /\ call.args.attempt = 2
  /\ call.args.self.retry_delay_ms = 100
  /\ call.args.self.max_retry_delay_ms = 150
  /\ call.result = 150

\* C24: should_retry(s) is true exactly when s is one of 408, 429, 500,
\* 502, 503, 504.
C24_RetryableStatus ==
  call.fn = "should_retry" =>
    (call.result <=> call.args \in {408, 429, 500, 502, 503, 504})

C24_Witness ==
  call.fn = "should_retry" /\ call.args = 408 /\ call.result

\* C25: should_failover(h) is true exactly when h is unhealthy, or h is
\* degraded and its latency is known and greater than latency_threshold_ms.
C25_HealthFailover ==
  call.fn = "should_failover" =>
    LET health == call.args.health
    IN  call.result <=>
          \/ health.status = "unhealthy"
          \/ /\ health.status = "degraded"
             /\ health.latency_ms # Null
             /\ health.latency_ms.v > call.args.self.latency_threshold_ms

\* a degraded provider slower than the threshold, one of unknown latency
C25_Witness ==
  /\ call.fn = "should_failover"
  /\ call.args.health = [status |-> "degraded", latency_ms |-> Num(3)]
  /\ call.args.self.latency_threshold_ms = 2
  /\ call.result

(***************************************************************************)
(* Part VI.  The validation of a routing configuration (router/config.py). *)
(* A rule of the configuration dictionary is a record: name and provider   *)
(* are strings (NoneStr: the key is missing), priority is a JSON value     *)
(* (Absent: the key is missing), match is the set of the keys of its match *)
(* dictionary.                                                             *)
(***************************************************************************)
VALID_MATCH_CONDITIONS ==
  {"agent_type", "model_pattern", "thinking", "min_context_tokens",
   "max_context_tokens"}

\* RoutingConfig.from_dict, lines 104-126: the rules with the default
\* priority filled in, sorted by priority, highest first (a stable sort)
from_dict(rules) ==
  SortByPriority([i \in 1..Len(rules) |->
                    [rules[i] EXCEPT !.priority =
                       IF @ = Absent THEN 0 ELSE @.v]])

\* validate_routing_config, lines 129-174: (raised, rules); raised stands
\* for ConfigValidationError.  seen_names holds the names of the earlier
\* rules when rule i is looked at
validate_routing_config_any_priority(rules) ==
  IF \E i \in 1..Len(rules) :
       \/ rules[i].name \in {NoneStr, ""}
       \/ rules[i].provider \in {NoneStr, ""}
       \/ \E j \in 1..(i - 1) : rules[j].name = rules[i].name
       \/ rules[i].match \ VALID_MATCH_CONDITIONS # {}
  THEN [raised |-> TRUE, rules |-> <<>>]
  ELSE [raised |-> FALSE,
        rules |-> [i \in 1..Len(rules) |->
                     [rules[i] EXCEPT !.priority =
                        IF @.k = "int" THEN @.v ELSE 0]]]
validate_routing_config(rules) ==
  LET seen_names(i) == { rules[j].name : j \in 1..(i - 1) }
      Raises(i) ==
        LET rule == rules[i]
        IN  \/ rule.name \in {NoneStr, ""}
            \/ rule.provider \in {NoneStr, ""}
            \/ rule.name \in seen_names(i)
            \/ rule.priority # Absent /\ rule.priority.k # "int"
            \/ \E condition \in rule.match :
                 condition \notin VALID_MATCH_CONDITIONS
  IN  IF \E i \in 1..Len(rules) : Raises(i)
      THEN [raised |-> TRUE, rules |-> <<>>]
      ELSE [raised |-> FALSE, rules |-> from_dict(rules)]

\* C21: validate_routing_config raises ConfigValidationError exactly when
\* some rule has a missing or empty name or provider, two rules share a
\* name, a priority is not an integer, or a match key is outside the five
\* valid conditions; otherwise it returns a configuration that holds every
\* input rule, ordered by priority descending.  A rejected configuration
\* never changes the ruleset in use.
C21_ValidateConfig ==
  [][call'.fn = "validate_routing_config" =>
       LET rules == call'.args
           returned == call'.result.rules
           Priority(rule) == IF rule.priority = Absent THEN 0
                             ELSE rule.priority.v
           Invalid ==
             \/ \E i \in 1..Len(rules) :
                  \/ rules[i].name \in {NoneStr, ""}
                  \/ rules[i].provider \in {NoneStr, ""}
                  \/ rules[i].priority.k \notin {"absent", "int"}
                  \/ ~(rules[i].match \subseteq
                         {"agent_type", "model_pattern", "thinking",
                          "min_context_tokens", "max_context_tokens"})
             \/ \E i, j \in 1..Len(rules) :
                  i # j /\ rules[i].name = rules[j].name
       IN  /\ call'.result.raised <=> Invalid
           /\ ~call'.result.raised =>
                /\ Len(returned) = Len(rules)
                /\ \A i \in 1..Len(rules) :
                     \E j \in 1..Len(returned) :
                       returned[j] =
                         [rules[i] EXCEPT !.priority = Priority(rules[i])]
                /\ \A i, j \in 1..Len(returned) :
                     i < j => returned[i].priority >= returned[j].priority
           /\ call'.result.raised => router' = router]_vars

\* a configuration was accepted and its rules were put in another order;
\* one was refused for a repeated name
C21_Witness ==
  /\ call.fn = "validate_routing_config"
  /\ ~call.result.raised
  /\ Len(call.args) = 2
  /\ call.args[1].priority = Absent /\ call.args[2].priority = Num(5)
  /\ call.result.rules[1].name = call.args[2].name

(***************************************************************************)
(* Part VII.  The health checks of the providers.  A provider is the       *)
(* record of its class (api), is_configured and its health record _health; *)
(* a probe is what the request of the check meets: a response with a       *)
(* status and a body that is a JSON object or not, a timeout               *)
(* (httpx.TimeoutException) or another exception.                          *)
(***************************************************************************)
\* health_check of AnthropicProvider (anthropic.py lines 277-355),
\* AntigravityProvider (antigravity.py 356-430), OpenAIProvider (openai.py
\* 580-639) and GeminiProvider (gemini.py 595-654): (self, returned).  Only
\* Antigravity and Gemini name 403 next to 401; only Anthropic reads the
\* body of the response (response.json() and .get raise on a body that is
\* not a JSON object, and "except Exception" answers)
health_check(self, probe) ==
  LET Health(status, latency_known) ==
        [status |-> status, latency_known |-> latency_known]
      _health ==
        IF ~self.is_configured THEN Health("unhealthy", FALSE)
        ELSE IF probe.kind # "response" THEN Health("unhealthy", TRUE)
        ELSE IF probe.status = 200 THEN Health("healthy", TRUE)
        ELSE IF \/ probe.status = 401
                \/ /\ probe.status = 403
                   /\ self.api \in {"antigravity", "gemini"}
        THEN Health("unhealthy", TRUE)
        ELSE IF probe.status = 429 THEN Health("degraded", TRUE)
        ELSE IF self.api = "anthropic" /\ ~probe.json_object
        THEN Health("unhealthy", TRUE)
        ELSE Health("degraded", TRUE)
  IN  [self |-> [self EXCEPT !._health = _health], returned |-> _health]

\* C27: for every provider class a health check sets the health record of
\* the provider and returns that record, by the outcome of the probe: 200
\* gives healthy, 401 or 403 unhealthy, 429 degraded, a timeout unhealthy,
\* any other status degraded.
C27_HealthClassification ==
  (call.fn = "health_check" /\ call.args.self.is_configured) =>
    LET probe == call.args.probe
        status == call.result.returned.status
    IN  /\ call.result.self._health = call.result.returned
        /\ probe.kind = "timeout" => status = "unhealthy"
        /\ probe.kind = "response" =>
             status = CASE probe.status = 200 -> "healthy"
                        [] probe.status \in {401, 403} -> "unhealthy"
                        [] probe.status = 429 -> "degraded"
                        [] OTHER -> "degraded"

(***************************************************************************)
(* Part VIII.  The provider registry (providers/registry.py).  _providers  *)
(* is the dict of the registry, a sequence of providers in the order of    *)
(* their registration; registry_calls is the history of the calls made on  *)
(* the registry: each with its operation, the name, the provider given or  *)
(* returned (<<>>: None) and whether it raised ValueError.                 *)
(***************************************************************************)
MaxCalls == 3

\* ProviderRegistry.register, lines 35-49: (raised, providers)
register_replaces(dict, provider) ==
  [raised |-> FALSE,
   providers |-> Append(SelectSeq(dict, LAMBDA p : p.name # provider.name),
                        provider)]
register(dict, provider) ==
  IF registry_get(dict, provider.name) # 0
  THEN [raised |-> TRUE, providers |-> dict]
  ELSE [raised |-> FALSE, providers |-> Append(dict, provider)]

\* ProviderRegistry.unregister, lines 51-60
unregister(dict, name) ==
  IF registry_get(dict, name) # 0
  THEN SelectSeq(dict, LAMBDA p : p.name # name)
  ELSE dict

\* C26: registering a provider under a registered name raises ValueError
\* and leaves the registry as it was; after any sequence of register and
\* unregister calls each name maps to at most one provider; get(name)
\* returns a provider exactly when one was registered under the name and
\* the name was not unregistered since, and it is the provider registered
\* first since then; unregistering an unknown name changes nothing.
C26_RegistryMap ==
  [][Len(registry_calls') = Len(registry_calls) + 1 =>
       LET calls == registry_calls'
           e == calls[Len(calls)]
           Known == \E i \in 1..Len(_providers) : _providers[i].name = e.name
           \* the calls on name after which it is registered: a register
           \* call with no later unregister call
           Since(name) ==
             { i \in 1..Len(calls) :
                 /\ calls[i].op = "register" /\ calls[i].name = name
                 /\ \A j \in (i + 1)..Len(calls) :
                      ~(calls[j].op = "unregister" /\ calls[j].name = name) }
           First(S) == CHOOSE i \in S : \A j \in S : i <= j
           Mapped(name) ==
             { i \in 1..Len(_providers') : _providers'[i].name = name }
       IN  /\ e.op = "register" => (e.raised <=> Known)
           /\ e.raised => _providers' = _providers
           /\ (e.op = "unregister" /\ ~Known) => _providers' = _providers
           /\ \A name \in ProviderNames \cup {"openai"} :
                /\ Cardinality(Mapped(name)) <= 1
                /\ Mapped(name) # {} <=> Since(name) # {}
                /\ \A i \in Mapped(name) :
                     <<_providers'[i]>> = calls[First(Since(name))].provider
           /\ e.op = "get" =>
                e.provider = IF Mapped(e.name) = {} THEN <<>>
                             ELSE <<_providers'[CHOOSE i \in Mapped(e.name) :
                                                  TRUE]>>]_vars

\* a second registration under a name was refused and get still returns
\* the provider registered first
C26_Witness ==
  /\ Len(registry_calls) = 3
  /\ registry_calls[1] =
       [op |-> "register", name |-> "anthropic",
        provider |-> <<Provider("anthropic", TRUE)>>, raised |-> FALSE]
  /\ registry_calls[2] =
       [op |-> "register", name |-> "anthropic",
        provider |-> <<Provider("anthropic", FALSE)>>, raised |-> TRUE]
  /\ registry_calls[3] =
       [op |-> "get", name |-> "anthropic",
        provider |-> <<Provider("anthropic", TRUE)>>, raised |-> FALSE]

(***************************************************************************)
(* A request in flight while the rules change (server/routes/anthropic.py, *)
(* lines 47-70; router/rules.py, lines 128-187 and 275-286).               *)
(* create_message takes the global router (routing = get_router()), awaits *)
(* the request body and then calls routing.select_provider.  While it      *)
(* awaits, other callbacks of the event loop run: add_rule and remove_rule *)
(* change the rules of the global router in place, reset_router followed   *)
(* by get_router replaces the global router by a new object and the        *)
(* request keeps the old one.  The variable router is the global router.   *)
(* routing holds the position of the request (hpc), whether its Router is  *)
(* no longer the global one (own, its rules then in rules), the rules at   *)
(* get_router (old), the complete rule lists its Router has had since      *)
(* (versions), the list select_provider iterated (seen), the provider      *)
(* selected, and appended: add_rule has appended and not yet sorted.       *)
(***************************************************************************)
NoRouting ==
  [hpc |-> "idle", own |-> FALSE, rules |-> <<>>, agent_type |-> NoneStr,
   appended |-> FALSE, old |-> <<>>, versions |-> {}, seen |-> <<>>,
   provider |-> "", changes |-> 0]

\* add_rule, remove_rule and select_provider are synchronous methods with no
\* await, called from coroutines of one event loop: no other callback runs
\* between the append and the sort of add_rule
EventLoopFree_preemptive == TRUE

EventLoopFree == ~routing.appended

\* create_message, lines 47-51: routing = get_router(), then the await of
\* request.json()
GetRouter ==
  /\ EventLoopFree
  /\ routing.hpc \in {"idle", "selected"}
  /\ \E agent \in {NoneStr, "think", "default"} :
       routing' = [routing EXCEPT !.hpc = "awaiting", !.own = FALSE,
                                  !.rules = <<>>, !.agent_type = agent,
                                  !.old = router.rules,
                                  !.versions = {router.rules},
                                  !.seen = <<>>, !.provider = ""]
  /\ UNCHANGED <<streamVars, reqVars, handler, router, router_hist,
                 match_call, call, _providers, registry_calls, monitoring>>

\* create_message, lines 66-70: routing.select_provider(...) on the Router
\* the request holds
RouteRequest ==
  /\ EventLoopFree
  /\ routing.hpc = "awaiting"
  /\ LET held == IF routing.own THEN routing.rules ELSE router.rules
     IN  routing' =
           [routing EXCEPT
              !.hpc = "selected", !.seen = held,
              !.provider =
                select_provider([router EXCEPT !.rules = held], AnyRequest,
                                routing.agent_type, 0)]
  /\ UNCHANGED <<streamVars, reqVars, handler, router, router_hist,
                 match_call, call, _providers, registry_calls, monitoring>>

\* Router.add_rule, line 130: self.rules.append(rule)
AppendRule ==
  /\ EventLoopFree
  /\ routing.changes < MaxCalls
  /\ Len(router.rules) < MaxRules
  /\ \E rule \in RouterRules :
       router' = [router EXCEPT !.rules =
                    Append(@, [rule EXCEPT !.seq = Len(router.rules) + 1])]
  /\ routing' = [routing EXCEPT !.appended = TRUE, !.changes = @ + 1]
  /\ UNCHANGED <<streamVars, reqVars, handler, router_hist, match_call, call,
                 _providers, registry_calls, monitoring>>

\* Router.add_rule, line 132: self.rules.sort(...), which ends add_rule
SortRules ==
  /\ routing.appended
  /\ router' = [router EXCEPT !.rules = SortByPriority(@)]
  /\ routing' =
       [routing EXCEPT
          !.appended = FALSE,
          !.versions = IF routing.hpc = "awaiting" /\ ~routing.own
                       THEN @ \cup {SortByPriority(router.rules)} ELSE @]
  /\ UNCHANGED <<streamVars, reqVars, handler, router_hist, match_call, call,
                 _providers, registry_calls, monitoring>>

\* Router.remove_rule, lines 134-140
DeleteRule ==
  /\ EventLoopFree
  /\ routing.changes < MaxCalls
  /\ \E name \in {"a", "b"} :
       LET r == remove_rule(router.rules, name)
       IN  /\ router' = [router EXCEPT !.rules = r.rules]
           /\ routing' =
                [routing EXCEPT
                   !.changes = @ + 1,
                   !.versions = IF routing.hpc = "awaiting" /\ ~routing.own
                                THEN @ \cup {r.rules} ELSE @]
  /\ UNCHANGED <<streamVars, reqVars, handler, router_hist, match_call, call,
                 _providers, registry_calls, monitoring>>

\* reset_router() and the get_router() that follows, lines 275-286: the
\* global router becomes a new Router built by add_rule calls of rules with
\* different names and priorities; a request that took the old one keeps it
ResetRouter ==
  /\ EventLoopFree
  /\ routing.changes < MaxCalls
  /\ \E rule_configs \in [1..2 -> RouterRules] :
       /\ rule_configs[1].name = "a"
       /\ rule_configs[2].name = "b"
       /\ rule_configs[1].priority # rule_configs[2].priority
       /\ router' = [router EXCEPT !.rules = to_router(rule_configs)]
  /\ routing' =
       IF routing.hpc = "awaiting" /\ ~routing.own
       THEN [routing EXCEPT !.changes = @ + 1, !.own = TRUE,
                            !.rules = router.rules]
       ELSE [routing EXCEPT !.changes = @ + 1]
  /\ UNCHANGED <<streamVars, reqVars, handler, router_hist, match_call, call,
                 _providers, registry_calls, monitoring>>

\* C38: a selection made while the rules change (add, remove, reload)
\* iterates a complete rule list of its router, the one at get_router or one
\* a completed change has left, never a partially updated or unsorted one,
\* and the provider it gives is one such a list selects.
C38_CompleteRuleset ==
  routing.hpc = "selected" =>
    /\ routing.seen \in routing.versions
    /\ \A i, j \in 1..Len(routing.seen) :
         i < j => Precedes(routing.seen[i], routing.seen[j])
    /\ \E v \in routing.versions :
         routing.provider =
           select_provider([router EXCEPT !.rules = v], AnyRequest,
                           routing.agent_type, 0)

\* a rule added while the request awaited its body: the selection iterated
\* the new list, sorted, and gives a provider the old list does not select
C38_Witness ==
  /\ routing.hpc = "selected"
  /\ ~routing.own
  /\ Len(routing.seen) = Len(routing.old) + 1
  /\ routing.seen[1].seq = Len(routing.seen)
  /\ Len(routing.seen) >= 2
  /\ routing.provider = routing.seen[1].provider
  /\ routing.provider #
       select_provider([router EXCEPT !.rules = routing.old], AnyRequest,
                       routing.agent_type, 0)

(***************************************************************************)
(* Health monitoring (providers/registry.py, lines 159-188).  monitoring   *)
(* holds _health_check_task (0 is None, else the number of a task: that of *)
(* the call that created it), tasks (the monitor tasks of the event loop   *)
(* that have not ended), checks (the calls of check_all_health made by     *)
(* monitor tasks) and stopped (stop_health_monitoring has returned and     *)
(* start_health_monitoring has not been called since).  The calls are      *)
(* recorded in registry_calls.  The health records that check_all_health   *)
(* writes are those of Part VII.                                           *)
(***************************************************************************)
\* start_health_monitoring: asyncio.create_task(monitor()) and the
\* assignment to _health_check_task; a task that field referred to is not
\* cancelled
start_health_monitoring ==
  /\ Len(registry_calls) < MaxCalls
  /\ LET task == Len(registry_calls) + 1
     IN  monitoring' = [monitoring EXCEPT !._health_check_task = task,
                                          !.tasks = @ \cup {task},
                                          !.stopped = FALSE]
  /\ registry_calls' =
       Append(registry_calls,
              [op |-> "start_health_monitoring", name |-> "",
               provider |-> <<>>, raised |-> FALSE])
  /\ UNCHANGED <<streamVars, reqVars, handler, router, router_hist,
                 match_call, call, _providers, routing>>

\* stop_health_monitoring: the task _health_check_task refers to is
\* cancelled and awaited (monitor does not catch CancelledError, so it
\* ends), and the field is set to None; nothing is done when it is None
stop_health_monitoring ==
  /\ Len(registry_calls) < MaxCalls
  /\ registry_calls' =
       Append(registry_calls,
              [op |-> "stop_health_monitoring", name |-> "",
               provider |-> <<>>, raised |-> FALSE])
  /\ monitoring' =
       IF monitoring._health_check_task # 0
       THEN [monitoring EXCEPT !.tasks = @ \ {monitoring._health_check_task},
                               !._health_check_task = 0,
                               !.stopped = TRUE]
       ELSE [monitoring EXCEPT !.stopped = TRUE]
  /\ UNCHANGED <<streamVars, reqVars, handler, router, router_hist,
                 match_call, call, _providers, routing>>

\* one round of the loop of monitor() in a task that has not ended: a
\* background health check
monitor ==
  /\ monitoring.checks < MaxCalls
  /\ \E task \in monitoring.tasks :
       monitoring' = [monitoring EXCEPT !.checks = @ + 1]
  /\ UNCHANGED <<streamVars, reqVars, handler, router, router_hist,
                 match_call, call, _providers, registry_calls,
                 routing>>

\* C37: after stop_health_monitoring has returned no background health
\* check is started until start_health_monitoring is called again, whatever
\* calls of start and stop came before, and at most one prober task is
\* alive at any time; stop_health_monitoring ends, and changes nothing when
\* no prober is running.
C37_MonitoringStops ==
  [][/\ Cardinality(monitoring'.tasks) <= 1
     /\ monitoring'.checks > monitoring.checks => ~monitoring.stopped
     /\ (monitoring.tasks = {} /\ monitoring'.stopped /\ ~monitoring.stopped)
          => monitoring'.tasks = {}]_vars

(***************************************************************************)
(* Properties of reorganize_tool_messages (core/converter.py).             *)
(***************************************************************************)
\* the bound on the number of the Contents given to
\* reorganize_tool_messages
MaxContents == 2

\* the Contents of list whose part is not a functionResponse, in order
WithoutResponses(list) ==
  SelectSeq(list, LAMBDA c : c.parts[1].kind # "functionResponse")

\* the parts of the Contents of contents, each with the role of its
\* Content, in order
RECURSIVE PartsInOrder(_)
PartsInOrder(contents) ==
  IF contents = <<>> THEN <<>>
  ELSE [i \in 1..Len(Head(contents).parts) |->
          [role |-> Head(contents).role, part |-> Head(contents).parts[i]]]
       \o PartsInOrder(Tail(contents))

\* C28: in the result of reorganize_tool_messages every Content holds one
\* part; every functionCall of the input appears as a model Content and is
\* directly followed by a user Content with the functionResponse of the
\* same id whenever the input has one; a functionResponse appears nowhere
\* else; all other parts keep their role and their order among themselves
\* and with the calls.
C28_CallsFollowedByResponses ==
  call.fn = "reorganize_tool_messages" =>
    LET input == PartsInOrder(call.args)
        new_contents == call.result
        Responses(id) ==
          { input[i].part : i \in { j \in 1..Len(input) :
              /\ input[j].part.kind = "functionResponse"
              /\ input[j].part.id = id } }
        \* the input without its responses, the calls as model Contents
        Kept ==
          LET rest == SelectSeq(input,
                                LAMBDA p : p.part.kind # "functionResponse")
          IN  [i \in 1..Len(rest) |->
                 [role |-> IF rest[i].part.kind = "functionCall"
                           THEN "model" ELSE rest[i].role,
                  parts |-> <<rest[i].part>>]]
    IN  /\ \A i \in 1..Len(new_contents) : Len(new_contents[i].parts) = 1
        /\ (\A i \in 1..Len(new_contents) : Len(new_contents[i].parts) = 1) =>
             /\ WithoutResponses(new_contents) = Kept
             /\ \A i \in 1..Len(new_contents) :
                  LET part == new_contents[i].parts[1]
                  IN  /\ (part.kind = "functionCall"
                            /\ Responses(part.id) # {}) =>
                           /\ i < Len(new_contents)
                           /\ new_contents[i + 1].role = "user"
                           /\ new_contents[i + 1].parts[1] \in Responses(part.id)
                      /\ part.kind = "functionResponse" =>
                           /\ i > 1
                           /\ new_contents[i - 1].parts[1].kind = "functionCall"
                           /\ new_contents[i - 1].parts[1].id = part.id

\* a response given before its call, in the Content of another part, was
\* moved behind the call; a response without call was dropped
C28_Witness ==
  /\ call.fn = "reorganize_tool_messages"
  /\ call.args =
       <<[role |-> "user",
          parts |-> <<ContentPart("functionResponse", <<"o">>, "", "A"),
                      ContentPart("text", <<"x">>, "", "")>>],
         [role |-> "model",
          parts |-> <<ContentPart("functionCall", <<>>, "", "A"),
                      ContentPart("functionCall", <<>>, "", "B")>>]>>
  /\ Len(call.result) = 4
  /\ call.result[3].parts[1].kind = "functionResponse"

\* C29: reorganize_tool_messages is idempotent.
C29_ReorganizeIdempotent ==
  call.fn = "reorganize_tool_messages" =>
    reorganize_tool_messages(call.result) = call.result

\* a result that differs from its input and holds a call with its response
C29_Witness ==
  /\ call.fn = "reorganize_tool_messages"
  /\ call.result # call.args
  /\ \E i \in 1..Len(call.result) :
       call.result[i].parts[1].kind = "functionResponse"
  /\ \E i, j \in 1..Len(call.args) :
       /\ i < j
       /\ \E k \in 1..Len(call.args[i].parts) :
            call.args[i].parts[k].kind = "functionResponse"
       /\ \E k \in 1..Len(call.args[j].parts) :
            call.args[j].parts[k].kind = "functionCall"

(***************************************************************************)
(* Part IX.  The schema sanitizer clean_json_schema (core/converter.py).   *)
(* A JSON value is a record [k, v]: k "dict" with v the function from its  *)
(* keys to their values, "list" with v a sequence, "string", "int" and     *)
(* "bool" with v the Python value.  The key order of a dict matters only   *)
(* to a schema that has the key "nullable" beside a type array; the        *)
(* schemas here have none.                                                 *)
(***************************************************************************)
\* the bound on the nesting of the schemas
MaxDepth == 2

\* clean_json_schema, lines 134-236
RECURSIVE clean_json_schema_keeps_validation(_)
clean_json_schema_keeps_validation(schema) ==
  IF schema.k # "dict" THEN schema
  ELSE
    LET fields == <<"minLength", "maxLength", "minimum", "maximum",
                    "minItems", "maxItems">>
        present == SelectSeq(fields, LAMBDA f : f \in DOMAIN schema.v)
        str(value) == IF value.k = "string" THEN value.v
                      ELSE ToString(value.v)
        RECURSIVE join(_)
        join(fs) ==
          IF fs = <<>> THEN ""
          ELSE fs[1] \o ": " \o str(schema.v[fs[1]])
                 \o (IF Len(fs) > 1 THEN ", " ELSE "") \o join(Tail(fs))
        value_of(key) ==
          LET value == schema.v[key]
          IN  IF key = "description" /\ present # <<>>
              THEN [k |-> "string",
                    v |-> str(value) \o " (" \o join(present) \o ")"]
              ELSE IF value.k = "dict"
              THEN clean_json_schema_keeps_validation(value)
              ELSE value
    IN  [k |-> "dict", v |-> [key \in DOMAIN schema.v |-> value_of(key)]]
RECURSIVE clean_json_schema(_)
clean_json_schema(schema) ==
  IF schema.k # "dict" THEN schema
  ELSE
    LET unsupported_keys ==
          {"$schema", "$id", "$ref", "$defs", "definitions", "title",
           "example", "examples", "readOnly", "writeOnly", "default",
           "exclusiveMaximum", "exclusiveMinimum", "oneOf", "anyOf", "allOf",
           "const", "additionalItems", "contains", "patternProperties",
           "dependencies", "propertyNames", "if", "then", "else",
           "contentEncoding", "contentMediaType"}
        \* validation_fields in the order of the dict
        validation_fields == <<"minLength", "maxLength", "minimum", "maximum",
                               "minItems", "maxItems">>
        fields_to_remove == {"additionalProperties"}
        \* str() of a value inside an f-string
        str(value) == IF value.k = "string" THEN value.v
                      ELSE ToString(value.v)
        \* ", ".join(validations)
        present == SelectSeq(validation_fields,
                             LAMBDA f : f \in DOMAIN schema.v)
        RECURSIVE join(_)
        join(fs) ==
          IF fs = <<>> THEN ""
          ELSE fs[1] \o ": " \o str(schema.v[fs[1]])
                 \o (IF Len(fs) > 1 THEN ", " ELSE "") \o join(Tail(fs))
        kept == DOMAIN schema.v
                  \ (unsupported_keys \cup fields_to_remove
                       \cup {validation_fields[i] : i \in 1..6})
        \* t.strip() and .lower() on the type names of the schemas
        strip(t) == IF t = " integer " THEN "integer"
                    ELSE IF t = " " THEN "" ELSE t
        lower(t) == IF t = "NULL" THEN "null" ELSE t
        named(value) ==
          SelectSeq(value, LAMBDA t : t.k = "string" /\ strip(t.v) # "")
        has_null(value) ==
          \E i \in 1..Len(named(value)) :
            lower(strip(named(value)[i].v)) = "null"
        non_null_types(value) ==
          SelectSeq(named(value), LAMBDA t : lower(strip(t.v)) # "null")
        type_array == "type" \in kept /\ schema.v["type"].k = "list"
        value_of(key) ==
          LET value == schema.v[key]
          IN  IF key = "type" /\ value.k = "list"
              THEN [k |-> "string",
                    v |-> IF non_null_types(value.v) # <<>>
                          THEN strip(non_null_types(value.v)[1].v)
                          ELSE "string"]
              ELSE IF key = "description" /\ present # <<>>
              THEN [k |-> "string",
                    v |-> str(value) \o " (" \o join(present) \o ")"]
              ELSE IF value.k = "dict" THEN clean_json_schema(value)
              ELSE IF value.k = "list"
              THEN [k |-> "list",
                    v |-> [i \in 1..Len(value.v) |->
                             IF value.v[i].k = "dict"
                             THEN clean_json_schema(value.v[i])
                             ELSE value.v[i]]]
              ELSE value
        added ==
          (IF type_array /\ has_null(schema.v["type"].v)
           THEN {"nullable"} ELSE {})
            \cup (IF present # <<>> /\ "description" \notin kept
                  THEN {"description"} ELSE {})
            \cup (IF "properties" \in kept /\ "type" \notin kept
                  THEN {"type"} ELSE {})
    IN  [k |-> "dict",
         v |-> [key \in kept \cup added |->
                  IF key \in kept THEN value_of(key)
                  ELSE IF key = "nullable" THEN [k |-> "bool", v |-> TRUE]
                  ELSE IF key = "description"
                  THEN [k |-> "string",
                        v |-> "Validation: " \o join(present)]
                  ELSE [k |-> "string", v |-> "object"]]]

\* C30: clean_json_schema is idempotent: cleaning a cleaned value gives the
\* same value, for schemas with validation keys, type arrays, nested
\* properties and lists.
C30_CleanIdempotent ==
  call.fn = "clean_json_schema" =>
    clean_json_schema(call.result) = call.result

\* a nested schema with a type array, a validation key folded into its
\* description and a removed key was cleaned
C30_Witness ==
  /\ call.fn = "clean_json_schema"
  /\ call.args.k = "dict"
  /\ DOMAIN call.args.v = {"properties"}
  /\ DOMAIN call.result.v = {"properties", "type"}
  /\ \E s \in {call.args.v["properties"].v["x"]} :
       /\ DOMAIN s.v = {"type", "description", "minLength", "title"}
       /\ s.v["type"].k = "list"
  /\ \E c \in {call.result.v["properties"].v["x"]} :
       /\ DOMAIN c.v = {"type", "description", "nullable"}
       /\ c.v["description"].v = "d (minLength: 1)"

\* the keys clean_json_schema is to remove: the drop keys and the
\* validation keys
ForbiddenKeys ==
  {"$schema", "$id", "$ref", "$defs", "definitions", "title", "example",
   "examples", "readOnly", "writeOnly", "default", "exclusiveMaximum",
   "exclusiveMinimum", "oneOf", "anyOf", "allOf", "const", "additionalItems",
   "contains", "patternProperties", "dependencies", "propertyNames", "if",
   "then", "else", "contentEncoding", "contentMediaType",
   "additionalProperties", "minLength", "maxLength", "minimum", "maximum",
   "minItems", "maxItems"}

\* value holds a dict with a forbidden key, at any depth, below dict values
\* or list items
RECURSIVE HasForbiddenKey(_)
HasForbiddenKey(value) ==
  IF value.k = "dict"
  THEN \/ DOMAIN value.v \cap ForbiddenKeys # {}
       \/ \E key \in DOMAIN value.v : HasForbiddenKey(value.v[key])
  ELSE IF value.k = "list"
  THEN \E i \in 1..Len(value.v) : HasForbiddenKey(value.v[i])
  ELSE FALSE

\* C31: for every JSON value x, clean_json_schema(x) holds no dict key of
\* the forbidden set (the drop keys and the six validation keys) at any
\* nesting depth, whether reached through dict values or through lists.
C31_NoForbiddenKeys ==
  call.fn = "clean_json_schema" => ~HasForbiddenKey(call.result)

\* C32: the model mapping is idempotent on its own output: for every
\* string m, map_claude_model_to_gemini(map_claude_model_to_gemini(m)) equals
\* map_claude_model_to_gemini(m).
C32_ModelMappingIdempotent ==
  call.fn = "map_claude_model_to_gemini"
    => map_claude_model_to_gemini(call.result) = call.result

\* C35: each functionCall part yields, contiguously and on a fresh index k,
\* content_block_start(k, tool_use, id, name, empty input), exactly one
\* content_block_delta(k, input_json_delta) whose partial_json is the whole
\* arguments object with its null-valued keys removed, and
\* content_block_stop(k); an open block is stopped before it and no block is
\* open after it.  The calls of the streams are search(q: "x", y: null,
\* o: {n: null}) with id t1.
C35_FunctionCallBlock ==
  /\ \A i \in 1..Len(out) :
       out[i].kind = "tool_use" =>
         LET idx == out[i].index
         IN  /\ out[i].type = "content_block_start"
             /\ out[i].text = <<"t1", "search">>
             /\ idx = StartsBefore(out, i)
             /\ StopsBefore(out, i) = StartsBefore(out, i)
             /\ i + 1 <= Len(out) =>
                  out[i + 1] = BlockDelta(idx, "input_json_delta",
                                          <<"{\"q\":\"x\",\"o\":{}}">>, "")
             /\ i + 2 <= Len(out) => out[i + 2] = BlockStop(idx)
             /\ i + 3 <= Len(out) =>
                  out[i + 3].type \notin {"content_block_delta",
                                          "content_block_stop"}
  /\ \A i \in 1..Len(out) :
       out[i].kind = "input_json_delta" => i > 1 /\ out[i - 1].kind = "tool_use"
  /\ (pc = "done" /\ ~failed /\ ~consumer_closed) =>
       (fc_seen <=> \E i \in 1..Len(out) : out[i].kind = "tool_use")

\* a finished stream in which a function call closed an open text block and
\* took the next index
C35_Witness ==
  /\ pc = "done" /\ ~failed
  /\ \E i \in 3..(Len(out) - 2) :
       /\ out[i].kind = "tool_use" /\ out[i].index = 1
       /\ out[i - 1] = BlockStop(0)
       /\ out[i - 2].kind = "text_delta"
       /\ out[i + 2] = BlockStop(1)
  /\ out[Len(out) - 1].stop_reason = "tool_use"

C33_ThinkingDisabled ==
  ~client_thinking_enabled =>
    /\ \A i \in 1..Len(out) :
         out[i].kind \notin {"thinking", "thinking_delta", "signature_delta"}
    /\ ~thinking_to_text =>
         /\ thinking_text_buffer = <<>>
         /\ \A i \in 1..Len(out) :
              out[i].kind = "text_delta" => out[i].text \in {<<"a">>, <<"b">>}
         /\ \A chunk \in Chunks[1] :
              chunk.parts[1].thought =>
                ProcessPart(Local, chunk.parts[1]) = Local

\* a finished stream with the fallback "strip" that read a text part and a
\* thought part: one text block and nothing else
C33_Witness ==
  /\ ~client_thinking_enabled /\ ~thinking_to_text
  /\ pc = "done" /\ ~failed
  /\ thoughts # <<>> /\ nparts = 2
  /\ Len(out) = 6
  /\ out[2].kind = "text" /\ out[3].kind = "text_delta" /\ out[4] = BlockStop(0)

\* the text_delta events of o that carry wrapped thinking
WrappedAt(o) ==
  {i \in 1..Len(o) : /\ o[i].kind = "text_delta"
                     /\ o[i].text[1] = "<assistant_thinking>\n"}

\* the texts of a sequence of texts joined
RECURSIVE Joined(_)
Joined(texts) ==
  IF texts = <<>> THEN <<>> ELSE Head(texts) \o Joined(Tail(texts))

\* the thinking text the events o[1..i] carry inside the wrappers
RECURSIVE Unwrapped(_, _)
Unwrapped(o, i) ==
  IF i = 0 THEN <<>>
  ELSE Unwrapped(o, i - 1)
         \o (IF i \in WrappedAt(o) THEN SubSeq(o[i].text, 2, Len(o[i].text) - 1)
             ELSE <<>>)

\* every thought text is emitted exactly once, in arrival order, inside
\* wrappers
C34_EmittedOnce ==
  (pc = "done" /\ ~failed /\ ~consumer_closed /\ ~client_thinking_enabled
     /\ thinking_to_text)
    => Unwrapped(out, Len(out)) = Joined(thoughts)

\* a wrapper is a text_delta of a text block, followed by the text of the
\* text part that flushed it or, in the epilogue, by the stop of its block
C34_WrapperPlace ==
  \A i \in WrappedAt(out) :
    /\ \E s \in 1..(i - 1) :
         /\ out[s] = BlockStart(out[i].index, "text", "")
         /\ \A m \in (s + 1)..(i - 1) : out[m].type = "content_block_delta"
    /\ i + 1 <= Len(out) =>
         IF out[i].text[Len(out[i].text)] = "</assistant_thinking>\n\n"
         THEN /\ out[i + 1].kind = "text_delta"
              /\ out[i + 1].index = out[i].index
              /\ out[i + 1].text \in {<<"a">>, <<"b">>}
         ELSE /\ out[i].text[Len(out[i].text)] = "</assistant_thinking>"
              /\ out[i + 1] = BlockStop(out[i].index)

\* the wrapper of the epilogue goes into the text block that is open, if
\* one is: a text block is never stopped only to start the next text block
C34_OpenTextBlockReused ==
  \A i \in 2..Len(out) :
    (out[i].type = "content_block_start" /\ out[i].kind = "text") =>
      ~(/\ out[i - 1].type = "content_block_stop"
        /\ \E s \in 1..(i - 1) :
             /\ out[s].type = "content_block_start"
             /\ out[s].index = out[i - 1].index
             /\ out[s].kind = "text")

\* the thinking buffer is empty when message_delta is emitted
C34_BufferEmptyAtEnd ==
  (\E i \in 1..Len(out) : out[i].type = "message_delta")
    => thinking_text_buffer = <<>>

\* C34: with client thinking disabled and the fallback "text", on every
\* stream that completes normally each thought text is emitted exactly once
\* and in arrival order, as a text_delta wrapped in
\* <assistant_thinking>...</assistant_thinking> inside a text block: at the
\* next non-blank text part, before that part's own text, or in the
\* epilogue, in the open text block if there is one and else in a block
\* opened and closed for it; and the thinking buffer is empty when
\* message_delta is emitted.
C34_ThinkingAsText ==
  /\ C34_EmittedOnce
  /\ C34_WrapperPlace
  /\ C34_OpenTextBlockReused
  /\ C34_BufferEmptyAtEnd

\* the content blocks of the messages, in order
HistoryBlocks(messages) ==
  Joined([i \in 1..Len(messages) |->
            IF messages[i].ckind = "list" THEN messages[i].blocks ELSE <<>>])

\* the contents without their thought parts, and without the contents this
\* leaves empty
WithoutThoughts(contents) ==
  SelectSeq([i \in 1..Len(contents) |->
               [role |-> contents[i].role,
                parts |-> SelectSeq(contents[i].parts,
                                    LAMBDA part : part.kind # "thought")]],
            LAMBDA content : content.parts # <<>>)

\* C40: convert_messages_to_contents forwards a thinking or
\* redacted_thinking block of the history as a thought part iff
\* include_thinking is true and the block has a non-empty signature; with
\* include_thinking false there is no thought part at all; a forwarded
\* thought part carries the signature of its block as thoughtSignature; the
\* blocks of every other kind are translated the same way whatever
\* include_thinking is.
C40_HistoricalThinking ==
  call.fn = "convert_messages_to_contents" =>
    LET messages == call.args[1]
        include_thinking == call.args[2]
        parts == Joined([i \in 1..Len(call.result) |-> call.result[i].parts])
        signed == SelectSeq(HistoryBlocks(messages),
                            LAMBDA item :
                              /\ item.isdict
                              /\ item.type \in {"thinking", "redacted_thinking"}
                              /\ item.signature # "")
    IN  /\ SelectSeq(parts, LAMBDA part : part.kind = "thought")
             = IF include_thinking
               THEN [i \in 1..Len(signed) |->
                       ContentPart("thought", signed[i].text,
                                   signed[i].signature, "")]
               ELSE <<>>
        /\ WithoutThoughts(call.result)
             = WithoutThoughts(
                 convert_messages_to_contents(messages, ~include_thinking))

\* a history with a signed and an unsigned thinking block converted with
\* include_thinking true: one thought part, carrying the signature
C40_Witness ==
  /\ call.fn = "convert_messages_to_contents"
  /\ call.args[2]
  /\ \E i \in 1..Len(call.args[1]) : \E j \in 1..Len(call.args[1][i].blocks) :
       /\ call.args[1][i].blocks[j].type = "thinking"
       /\ call.args[1][i].blocks[j].signature = ""
  /\ \E i \in 1..Len(call.result) :
       /\ call.result[i].parts[1] = ContentPart("thought", <<"h">>, "G1", "")
       /\ Len(call.result[i].parts) = 2

(***************************************************************************)
(* The stream converters of the OpenAI and Gemini providers                *)
(* (providers/openai.py, lines 500-578; providers/gemini.py, lines         *)
(* 508-593).  An upstream line is a record: k is "other" (no "data: "      *)
(* prefix), "done" ("data: [DONE]"), "empty" ("data: " and nothing more),  *)
(* "bad" (unparsable JSON) or "chunk".  An OpenAI chunk has choices        *)
(* ("absent", "empty" or "one"), delta.content (<<>> when absent or "")    *)
(* and finish_reason ("" when absent or null); a Gemini chunk has          *)
(* candidates ("absent" or "one"), the parts of the first candidate (each  *)
(* the text of a text part, NoText for another part) and finishReason.     *)
(* The result is the events yielded (out) and raised: an exception left    *)
(* the generator.                                                          *)
(***************************************************************************)
\* message_delta and message_stop as both converters build them
ConverterEnd(stop_reason) ==
  << Event("message_delta", -1, "", <<>>, "", 0, 0, stop_reason),
     Event("message_stop", -1, "", <<>>, "", 0, 0, "") >>

\* OpenAIProvider._convert_stream, lines 500-578
OpenAI_convert_stream(lines) ==
  LET after[i \in 0..Len(lines)] ==
        IF i = 0
        THEN [content_index |-> 0, sent_start |-> FALSE, out |-> <<>>,
              raised |-> FALSE]
        ELSE
          LET s == after[i - 1]
              line == lines[i]
              \* lines 533-549: message_start on the first chunk
              started == IF s.sent_start THEN s.out
                         ELSE Append(s.out, MessageStart(0))
              \* lines 551-572: the delta of the chunk
              with_start == IF line.content # <<>> /\ s.content_index = 0
                            THEN Append(started, BlockStart(0, "text", ""))
                            ELSE started
              with_delta == IF line.content # <<>>
                            THEN Append(with_start,
                                        BlockDelta(0, "text_delta",
                                                   line.content, ""))
                            ELSE with_start
              content_index == IF line.content # <<>> THEN 1
                               ELSE s.content_index
              \* lines 574-578: finish_reason
              with_stop == IF line.finish # "" /\ content_index > 0
                           THEN Append(with_delta, BlockStop(0))
                           ELSE with_delta
          IN  IF s.raised \/ line.k \in {"other", "bad"} THEN s
              ELSE IF line.k = "done"
              THEN [s EXCEPT !.out = @ \o ConverterEnd("end_turn")]
              ELSE IF line.k = "empty" THEN s   \* json.loads("") fails
              ELSE IF line.choices = "empty"
              \* chunk.get("choices", [{}])[0] raises IndexError
              THEN [s EXCEPT !.sent_start = TRUE, !.out = started,
                             !.raised = TRUE]
              ELSE [content_index |-> content_index, sent_start |-> TRUE,
                    out |-> with_stop, raised |-> FALSE]
  IN  [out |-> after[Len(lines)].out, raised |-> after[Len(lines)].raised]

\* the text parts of a chunk, lines 556-574 of gemini.py: a
\* content_block_start before the first text of the stream, a delta for
\* each text part
RECURSIVE GeminiParts(_, _)
GeminiParts(s, parts) ==
  IF parts = <<>> THEN s
  ELSE IF Head(parts).k = "absent" THEN GeminiParts(s, Tail(parts))
  ELSE GeminiParts(
         [s EXCEPT !.content_index = 1,
                   !.out = (IF s.content_index = 0
                            THEN Append(@, BlockStart(0, "text", ""))
                            ELSE @)
                           \o <<BlockDelta(0, "text_delta", Head(parts).s,
                                           "")>>],
         Tail(parts))

\* GeminiProvider._convert_stream, lines 508-593
Gemini_convert_stream(lines) ==
  LET after[i \in 0..Len(lines)] ==
        IF i = 0
        THEN [content_index |-> 0, sent_start |-> FALSE, out |-> <<>>,
              raised |-> FALSE]
        ELSE
          LET s == after[i - 1]
              line == lines[i]
              \* lines 529-545: message_start on the first chunk
              started == [s EXCEPT !.sent_start = TRUE,
                                   !.out = IF s.sent_start THEN @
                                           ELSE Append(@, MessageStart(0))]
              with_parts == GeminiParts(started, line.parts)
              \* lines 576-593: finishReason
              finished ==
                [with_parts EXCEPT
                   !.out = (IF with_parts.content_index > 0
                            THEN Append(@, BlockStop(0)) ELSE @)
                           \o ConverterEnd(IF line.finish = "STOP"
                                           THEN "end_turn"
                                           ELSE "max_tokens")]
          IN  IF line.k \in {"other", "empty", "done", "bad"} THEN s
              ELSE IF line.candidates = "absent" THEN started
              ELSE IF line.finish # "" THEN finished
              ELSE with_parts
  IN  [out |-> after[Len(lines)].out, raised |-> after[Len(lines)].raised]

\* C39: for every upstream line sequence of a status-200 response the
\* converters of the OpenAI and Gemini providers yield a sentence of the
\* grammar of the Antigravity translator: one message_start first, complete
\* content blocks, one message_delta, one message_stop and nothing after.
C39_ConverterGrammar ==
  call.fn \in {"OpenAIProvider._convert_stream",
               "GeminiProvider._convert_stream"} =>
    ~call.result.raised /\ IsSentence(call.result.out)

(***************************************************************************)
(* The specifications.  Each one runs one part of the program and leaves   *)
(* the variables of the other parts at their idle values.                  *)
(***************************************************************************)
\* the parts of the program a specification does not run stay as they are
\* after construction; running names the part that the specification runs
Idle(running) ==
  /\ IF running = "stream" THEN TRUE
     ELSE
          /\ client_thinking_enabled = TRUE
          /\ thinking_to_text = FALSE
          /\ initial_input_tokens_int = 0
          /\ state = StreamingState
          /\ message_start_sent = FALSE
          /\ pending_output = <<>>
          /\ thinking_text_buffer = <<>>
          /\ ready_output = <<>>
          /\ finish_reason = ""
          /\ pc = "idle"
          /\ out = <<>>
          /\ nread = 0
          /\ nparts = 0
          /\ failed = FALSE
          /\ queued = <<>>
          /\ upstream_finish = ""
          /\ fc_seen = FALSE
          /\ thoughts = <<>>
          /\ consumer_closed = FALSE
          /\ response_open = FALSE
  /\ IF running = "request" THEN TRUE
     ELSE
          /\ request = [model |-> "claude-opus-4-5", thinking |-> ThinkingAbsent,
                        max_tokens |-> Absent, messages |-> <<>>]
          /\ is_configured = TRUE
          /\ rpc = "idle"
          /\ components = NoComponents
          /\ should_include_thinking = FALSE
          /\ stream_reply = <<>>
  /\ IF running = "endpoint" THEN TRUE
     ELSE
          handler = [registry |-> <<>>, routed |-> "anthropic",
                     is_streaming |-> FALSE,
                     upstream |-> Upstream("timeout", 0, <<>>, FALSE),
                     hpc |-> "idle", provider |-> 0, provider_calls |-> <<>>,
                     upstream_calls |-> 0, http_status |-> 0, media_type |-> "",
                     reply_body |-> <<>>]
  /\ IF running = "router" THEN TRUE
     ELSE
          /\ router = [rules |-> <<>>, default_provider |-> "anthropic"]
          /\ router_hist = [last |-> [op |-> "none", name |-> "", existed |-> FALSE,
                                    result |-> FALSE],
                           selected |-> NoSelection]
  /\ IF running = "matches" THEN TRUE
     ELSE
          match_call = [rule |-> RoutingRule("r", "p", 0, NoneStr, NonePattern,
                                             NoneBool, Null, Null),
                        request |-> [model |-> <<>>, thinking |-> ThinkingAbsent],
                        agent_type |-> NoneStr, context_tokens |-> 0,
                        result |-> NoneBool]
  /\ call = [fn |-> "none", args |-> <<>>, result |-> <<>>]
  /\ _providers = <<>>
  /\ registry_calls = <<>>
  /\ monitoring = [_health_check_task |-> 0, tasks |-> {}, checks |-> 0,
                   stopped |-> FALSE]
  /\ routing = NoRouting

\* the streaming translator over one upstream stream
Init ==
  /\ \E m \in {<<TRUE, FALSE>>, <<FALSE, FALSE>>, <<FALSE, TRUE>>} :
       /\ client_thinking_enabled = m[1]
       /\ thinking_to_text = m[2]
  /\ \E t \in {Num(4)} :
       initial_input_tokens_int = Max(0, IntOrZero(t))
  /\ state = StreamingState
  /\ message_start_sent = FALSE
  /\ pending_output = <<>>
  /\ thinking_text_buffer = <<>>
  /\ ready_output = <<>>
  /\ finish_reason = ""
  /\ pc = "loop"
  /\ out = <<>>
  /\ nread = 0
  /\ nparts = 0
  /\ failed = FALSE
  /\ queued = <<>>
  /\ upstream_finish = ""
  /\ fc_seen = FALSE
  /\ thoughts = <<>>
  /\ consumer_closed = FALSE
  /\ response_open = TRUE
  /\ Idle("stream")

Next ==
  \/ SkipLine
  \/ BadJson
  \/ DoneLine
  \/ UpstreamClosed
  \/ UpstreamError
  \/ ChunkLine
  \/ Yield
  \/ EndChunk
  \/ StreamEpilogue
  \/ Return
  \/ CloseAtYield
  \/ CancelAtRead

Spec == Init /\ [][Next]_vars

\* stream_response of the Antigravity provider up to the upstream request
InitReq ==
  /\ request \in Requests
  /\ is_configured \in BOOLEAN
  /\ rpc = "start"
  /\ components = NoComponents
  /\ should_include_thinking = FALSE
  /\ stream_reply = <<>>
  /\ Idle("request")

NextReq ==
  \/ NotConfigured
  \/ ConvertRequest
  \/ EstimateInputTokens

SpecReq == InitReq /\ [][NextReq]_vars

\* one call of create_message
InitRoute ==
  /\ LET \* ProviderRegistry._providers, a dict in registration order;
         \* register() refuses a second provider of the same name
         Registries ==
           {<<>>}
             \cup { <<Provider(n, c)>> : n \in ProviderNames, c \in BOOLEAN }
             \cup { r \in [1..2 -> { Provider(n, c) : n \in ProviderNames,
                                                      c \in BOOLEAN }] :
                      r[1].name # r[2].name }
         Upstreams ==
           { Upstream("response", 200, cs, rt) :
               cs \in {<<>>, <<"b1">>, <<"b1", "b2">>}, rt \in BOOLEAN }
             \cup { Upstream("response", s, <<>>, FALSE) :
                      s \in {400, 404, 429, 503} }
             \cup { Upstream("timeout", 0, <<>>, FALSE) }
     IN
     \E reg \in Registries, name \in ProviderNames \cup {"openai", RoutingError},
        st \in BOOLEAN, up \in Upstreams :
       handler = [registry |-> reg, routed |-> name, is_streaming |-> st,
                  upstream |-> up, hpc |-> "start", provider |-> 0,
                  provider_calls |-> <<>>, upstream_calls |-> 0,
                  http_status |-> 0, media_type |-> "", reply_body |-> <<>>]
  /\ Idle("endpoint")

NextRoute ==
  \/ SelectProvider
  \/ StartStreaming
  \/ AntigravityStream
  \/ AnthropicStreamOpen
  \/ RelayChunk
  \/ RelayEnd
  \/ SendUnary

SpecRoute == InitRoute /\ [][NextRoute]_vars

\* a router, empty at first, and the calls made on it
InitRouter ==
  /\ router = [rules |-> <<>>, default_provider |-> "anthropic"]
  /\ router_hist = [last |-> [op |-> "none", name |-> "", existed |-> FALSE,
                            result |-> FALSE],
                   selected |-> NoSelection]
  /\ Idle("router")

NextRouter ==
  \/ AddRule
  \/ RemoveRule
  \/ LoadConfig
  \/ Select

SpecRouter == InitRouter /\ [][NextRouter]_vars

\* the global router, a request in flight and the changes of the rules
NextReload ==
  \/ GetRouter
  \/ RouteRequest
  \/ AppendRule
  \/ SortRules
  \/ DeleteRule
  \/ ResetRouter

SpecReload == InitRouter /\ [][NextReload]_vars

\* one call of RoutingRule.matches on the inputs Init draws
InitMatch ==
  /\ \E a \in {NoneStr, "think"}, te \in {NoneBool, Bool(TRUE), Bool(FALSE)},
        lo \in {Null, Num(10)}, hi \in {Null, Num(10)},
        mp \in { NonePattern,
                 [kind |-> "contains", lit |-> <<"o", "p", "u", "s">>],
                 [kind |-> "literal", lit |-> <<"o", "p", "u", "s">>],
                 [kind |-> "literal", lit |-> <<"C", "L">>] },
        model \in { <<"c", "l", "-", "O", "p", "u", "s">>,
                    <<"h", "a", "i">>, <<>> },
        thinking \in ThinkingValues, agent \in {NoneStr, "think", "default"},
        ctx \in {0, 10, 11} :
       match_call =
         [rule |-> RoutingRule("r", "p", 0, a, mp, te, lo, hi),
          request |-> [model |-> model, thinking |-> thinking],
          agent_type |-> agent, context_tokens |-> ctx, result |-> NoneBool]
  /\ Idle("matches")

NextMatch == Matches

SpecMatch == InitMatch /\ [][NextMatch]_vars

\* the functions: one call of one of them, made from the state in which no
\* call has been made
InitFn == Idle("none")

NextFn ==
  \/ /\ call.fn = "none"
     /\ \E status_code \in {200, 400, 401, 404, 408, 409, 429, 499, 500, 501,
                            502, 503, 504, 505} :
          Called("should_retry", status_code, should_retry(status_code))
  \/ /\ call.fn = "none"
     /\ \E self \in [retry_delay_ms : {0}, max_retry_delay_ms : {0},
                     latency_threshold_ms : {0, 2}],
           health \in [status : {"healthy", "degraded", "unhealthy", "unknown"},
                       latency_ms : {Null, Num(0), Num(2), Num(3)}] :
          Called("should_failover", [self |-> self, health |-> health],
                 should_failover(self, health))
  \/ /\ call.fn = "none"
     /\ \E primary \in {"a", "b", "c"}, fallback \in {NoneStr, "", "a", "b", "d"},
           available \in UNION { [1..n -> {"a", "b", "c"}] :
                                   n \in 0..MaxAvailable } :
          Called("build_failover_chain",
                 [primary |-> primary, fallback |-> fallback,
                  available |-> available],
                 build_failover_chain(primary, fallback, available))
  \/ /\ call.fn = "none"
     /\ \E self \in [retry_delay_ms : {0, 1, 100},
                     max_retry_delay_ms : {0, 150, 5000},
                     latency_threshold_ms : {0}],
           attempt \in 1..MaxAttempt :
          Called("get_retry_delay", [self |-> self, attempt |-> attempt],
                 get_retry_delay(self, attempt))
  \/ /\ call.fn = "none"
     /\ \E rules \in
             LET Rule(name, provider, priority, match) ==
                   [name |-> name, provider |-> provider, priority |-> priority,
                    match |-> match]
                 Rules ==
                   { Rule(n, "p", pr, m) :
                       n \in {"a", "b"}, pr \in {Absent, Num(0), Num(5)},
                       m \in {{}, {"agent_type"}} }
                     \cup { Rule(NoneStr, "p", Num(5), {}),
                            Rule("", "p", Num(5), {}),
                            Rule("a", NoneStr, Num(5), {}),
                            Rule("a", "", Num(5), {}),
                            Rule("a", "p", Str, {}),
                            Rule("a", "p", Num(5), {"agent_type", "model"}) }
             IN  UNION { [1..n -> Rules] : n \in 0..MaxRules } :
          Called("validate_routing_config", rules,
                 validate_routing_config(rules))
  \/ /\ call.fn = "none"
     /\ \E self \in [api : {"anthropic", "antigravity", "openai", "gemini"},
                     is_configured : BOOLEAN,
                     _health : {[status |-> "unknown", latency_known |-> FALSE]}],
           probe \in [kind : {"response"},
                      status : {200, 401, 403, 404, 429, 500},
                      json_object : BOOLEAN]
                       \cup [kind : {"timeout", "error"}, status : {0},
                             json_object : {FALSE}] :
          Called("health_check", [self |-> self, probe |-> probe],
                 health_check(self, probe))
  \/ /\ call.fn = "none"
     /\ \E contents \in
             LET Parts == { ContentPart("text", <<"x">>, "", ""),
                            ContentPart("functionCall", <<>>, "", "A"),
                            ContentPart("functionCall", <<>>, "", "B"),
                            ContentPart("functionResponse", <<"o">>, "", "A"),
                            ContentPart("functionResponse", <<"u">>, "", "A") }
                 Contents == [role : {"user", "model"},
                              parts : UNION { [1..n -> Parts] : n \in 0..2 }]
             IN  UNION { [1..n -> Contents] : n \in 0..MaxContents } :
          Called("reorganize_tool_messages", contents,
                 reorganize_tool_messages(contents))
  \/ /\ call.fn = "none"
     /\ \E schema \in
             LET S(s) == [k |-> "string", v |-> s]
                 L(l) == [k |-> "list", v |-> l]
                 D(d) == [k |-> "dict", v |-> d]
                 Types == { S("string"), L(<<S("string"), S("null")>>),
                            L(<<S("NULL"), S(" integer "), Num(1)>>),
                            L(<<S(" ")>>) }
                 Full == ("description" :> S("d")) @@ ("minLength" :> Num(1))
                           @@ ("maximum" :> Num(2)) @@ ("title" :> S("t"))
                 Leaves ==
                   { D([key \in K |-> Full[key]]) : K \in SUBSET DOMAIN Full }
                     \cup { D([key \in K \cup {"type"} |->
                                IF key = "type" THEN ty ELSE Full[key]]) :
                              K \in SUBSET DOMAIN Full, ty \in Types }
                 Nested(s) ==
                   { D("properties" :> D("x" :> s)),
                     D(("properties" :> D(("title" :> s) @@ ("x" :> s)))
                         @@ ("type" :> S("object"))),
                     D("properties" :> D(("minLength" :> s)
                                           @@ ("description" :> s))),
                     D(("items" :> s) @@ ("minItems" :> Num(1))
                         @@ ("description" :> S("d"))
                         @@ ("additionalProperties"
                               :> [k |-> "bool", v |-> FALSE])),
                     D(("anyOf" :> L(<<s>>)) @@ ("enum" :> L(<<s, S("v")>>))),
                     D("enum" :> L(<<L(<<s>>)>>)),
                     L(<<s>>),
                     D(("type" :> L(<<S("array"), S("null")>>))
                         @@ ("items" :> s) @@ ("maxItems" :> s)) }
                 Schemas[depth \in 1..MaxDepth] ==
                   IF depth = 1 THEN Leaves \cup {S("d")}
                   ELSE Schemas[depth - 1]
                          \cup UNION { Nested(s) : s \in Schemas[depth - 1] }
             IN  Schemas[MaxDepth] :
          Called("clean_json_schema", schema, clean_json_schema(schema))
  \/ /\ call.fn = "none"
     /\ \E name \in {"claude-opus-4-5", "claude-sonnet-4-5", "claude-haiku-4-5",
                      "claude-sonnet-4-5-thinking", "claude-opus-4-5-thinking",
                      "gemini-2.5-flash", "gemini-2.5-pro", "gemini-3-pro-high",
                      "gpt-oss-120b-medium", "claude-sonnet-4.5",
                      "claude-3-5-sonnet-20241022", "claude-opus-4",
                      "claude-haiku-4", "claude-3-haiku-20240307",
                      "claude-haiku-4.5", "claude-sonnet-4-5-nothinking",
                      "claude-opus-4-5-2025110", "gpt-4o", ""},
             suffix \in {"", "-20251101", "-20241022"},
             pad \in {<<"", "">>, <<" ", "">>, <<" ", " ">>} :
          LET claude_model == pad[1] \o name \o suffix \o pad[2]
          IN  Called("map_claude_model_to_gemini", claude_model,
                     map_claude_model_to_gemini(claude_model))
  \/ /\ call.fn = "none"
     /\ \E include_thinking \in BOOLEAN :
          LET ThinkingBlock(sig) == Block(TRUE, "thinking", sig, <<"h">>, "")
              TextBlock == Block(TRUE, "text", "", <<"x">>, "")
              Messages ==
                { Message("user", "str", <<"q">>, <<>>),
                  Message("assistant", "list", <<>>,
                          <<ThinkingBlock("G1"), TextBlock>>),
                  Message("assistant", "list", <<>>,
                          <<ThinkingBlock(""), TextBlock>>),
                  Message("assistant", "list", <<>>, <<ThinkingBlock("G1")>>),
                  Message("assistant", "list", <<>>,
                          <<Block(TRUE, "redacted_thinking", "G2", <<"r">>, ""),
                            Block(TRUE, "tool_use", "", <<>>, "A")>>),
                  Message("assistant", "list", <<>>,
                          <<Block(TRUE, "redacted_thinking", "", <<"r">>, ""),
                            Block(TRUE, "text", "", <<" ">>, "")>>),
                  Message("assistant", "list", <<>>,
                          <<Block(FALSE, "", "", <<"s">>, ""),
                            Block(TRUE, "image_url", "", <<>>, "")>>),
                  Message("user", "list", <<>>,
                          <<Block(TRUE, "tool_result", "", <<"o">>, "A")>>) }
          IN  \E messages \in UNION { [1..n -> Messages] : n \in 0..MaxMsgs } :
                Called("convert_messages_to_contents",
                       <<messages, include_thinking>>,
                       convert_messages_to_contents(messages,
                                                    include_thinking))
  \/ /\ call.fn = "none"
     /\ \E lines \in
             LET Line(k, choices, content, finish) ==
                   [k |-> k, choices |-> choices, content |-> content,
                    finish |-> finish]
                 Lines ==
                   { Line(k, "absent", <<>>, "") :
                       k \in {"other", "done", "empty", "bad", "chunk"} }
                     \cup { Line("chunk", "empty", <<>>, "") }
                     \cup { Line("chunk", "one", c, f) :
                              c \in {<<>>, <<"hi">>}, f \in {"", "stop"} }
             IN  UNION { [1..n -> Lines] : n \in 0..MaxLines } :
          Called("OpenAIProvider._convert_stream", lines,
                 OpenAI_convert_stream(lines))
  \/ /\ call.fn = "none"
     /\ \E lines \in
             LET Line(k, candidates, parts, finish) ==
                   [k |-> k, candidates |-> candidates, parts |-> parts,
                    finish |-> finish]
                 Lines ==
                   { Line(k, "absent", <<>>, "") :
                       k \in {"other", "done", "empty", "bad", "chunk"} }
                     \cup { Line("chunk", "one", ps, f) :
                              ps \in {<<>>, <<Text(<<"hi">>)>>, <<NoText>>,
                                      <<Text(<<"hi">>), Text(<<"x">>)>>},
                              f \in {"", "STOP", "MAX_TOKENS"} }
             IN  UNION { [1..n -> Lines] : n \in 0..MaxLines } :
          Called("GeminiProvider._convert_stream", lines,
                 Gemini_convert_stream(lines))


SpecFn == InitFn /\ [][NextFn]_vars

\* the registry: calls of register, unregister and get in any order
InitRegistry == Idle("none")

NextRegistry ==
  \/ /\ Len(registry_calls) < MaxCalls
     /\ \E name \in ProviderNames, configured \in BOOLEAN :
          LET provider == Provider(name, configured)
              r == register(_providers, provider)
          IN  /\ _providers' = r.providers
              /\ registry_calls' =
                   Append(registry_calls,
                          [op |-> "register", name |-> name,
                           provider |-> <<provider>>, raised |-> r.raised])
     /\ UNCHANGED <<streamVars, reqVars, handler, router, router_hist,
                    match_call, call, monitoring, routing>>
  \/ /\ Len(registry_calls) < MaxCalls
     /\ \E name \in ProviderNames \cup {"openai"} :
          /\ _providers' = unregister(_providers, name)
          /\ registry_calls' =
               Append(registry_calls,
                      [op |-> "unregister", name |-> name,
                       provider |-> <<>>, raised |-> FALSE])
     /\ UNCHANGED <<streamVars, reqVars, handler, router, router_hist,
                    match_call, call, monitoring, routing>>
  \/ /\ Len(registry_calls) < MaxCalls
     /\ \E name \in ProviderNames \cup {"openai"} :
          LET i == registry_get(_providers, name)
          IN  registry_calls' =
                Append(registry_calls,
                       [op |-> "get", name |-> name,
                        provider |-> IF i = 0 THEN <<>>
                                     ELSE <<_providers[i]>>,
                        raised |-> FALSE])
     /\ UNCHANGED <<_providers, streamVars, reqVars, handler, router,
                    router_hist, match_call, call, monitoring, routing>>
  \/ start_health_monitoring
  \/ stop_health_monitoring
  \/ monitor

SpecRegistry == InitRegistry /\ [][NextRegistry]_vars

====
